---- MODULE Spec2Model ----
(***************************************************************************)
(* Conversation orchestration core of the horticulture marketplace         *)
(* assistant: the session store (SessionManager), the relational store     *)
(* operations the tools use (DatabaseService), the tool registry           *)
(* (ToolRegistry.execute and its handlers) and the message-processing      *)
(* loop (ConversationOrchestrator.process_message / _llm_direct_flow).     *)
(*                                                                         *)
(* Strings the code inspects character by character (product names, text   *)
(* returned by the model) are sequences of one-character strings; dates    *)
(* are day numbers; money is an integer amount.                            *)
(***************************************************************************)
EXTENDS Integers, Sequences, FiniteSets, TLC

VARIABLES store, nextUuid, db, turn, last, nTurns, expiry, idle, tasks, log, machine, lookup

(* The state the message loop and the tool registry leave alone: the keys' *)
(* time to live, the coroutines of the session store in flight, the        *)
(* flow state machine, the last query made of DatabaseService directly.    *)
others == <<expiry, idle, tasks, log, machine, lookup>>

vars == <<store, nextUuid, db, turn, last, nTurns, expiry, idle, tasks, log, machine, lookup>>

(***************************************************************************)
(* Bounds of the model.                                                    *)
(***************************************************************************)
MaxSessions == 1
MaxTurns == 2
MaxInventory == 1
MaxOrders == 1

(***************************************************************************)
(* Program constants.                                                      *)
(***************************************************************************)
max_calls == 3
Today == 0
Weekday == 0

(***************************************************************************)
(* settings.MAX_CONVERSATION_HISTORY (20 unless configured otherwise).     *)
(***************************************************************************)
max_history == 3

(***************************************************************************)
(* Python values.                                                          *)
(***************************************************************************)
None == "None"

Whitespace == {" "}

(* str.strip(): what lies between the first and the last character that   *)
(* is not whitespace.                                                      *)
Strip(s) ==
    LET kept == {i \in 1..Len(s) : s[i] \notin Whitespace}
        first == CHOOSE i \in kept : \A j \in kept : i <= j
        final == CHOOSE i \in kept : \A j \in kept : i >= j
    IN  IF kept = {} THEN <<>> ELSE SubSeq(s, first, final)

LowerChar(c) ==
    CASE c = "T" -> "t"
      [] c = "O" -> "o"
      [] c = "D" -> "d"
      [] OTHER -> c

Lower(s) == [i \in 1..Len(s) |-> LowerChar(s[i])]

(***************************************************************************)
(* Session store (SessionManager over Redis).  A stored session is a       *)
(* record; `keys` holds the names of the top-level keys the stored JSON    *)
(* object has, and a key that is not there reads as its .get() default.    *)
(* Timestamps, name, phone, location and language are left out.  The       *)
(* nested context object is a record of the same kind: `keys` holds the    *)
(* names it has.                                                           *)
(***************************************************************************)
Uuids == <<"u1", "u2", "u3", "u4", "u5", "u6">>

SessionIds == {Uuids[i] : i \in 1..(MaxSessions + 1)} \cup {"x1"}

InitialKeys == {"session_id", "user_id", "user_type", "registered", "context",
                "conversation_history"}

ContextKeys == {"current_flow", "pending_order", "pending_inventory", "last_intent",
                "awaiting_confirmation"}

NoContext ==
    [keys |-> {}, current_flow |-> None, pending_order |-> None, pending_inventory |-> None,
     last_intent |-> None, awaiting_confirmation |-> FALSE]

InitialContext == [NoContext EXCEPT !.keys = ContextKeys, !.current_flow = "idle"]

Absent ==
    [present |-> FALSE, keys |-> {}, session_id |-> None, user_id |-> None,
     user_type |-> None, registered |-> FALSE, context |-> NoContext,
     conversation_history |-> <<>>]

EmptyDict == [Absent EXCEPT !.present = TRUE]

(* The initial record, were user_type left without its default.           *)
InitialSessionNoType(session_id) ==
    [present |-> TRUE, keys |-> InitialKeys, session_id |-> session_id,
     user_id |-> None, user_type |-> None, registered |-> FALSE,
     context |-> InitialContext, conversation_history |-> <<>>]

InitialSession(session_id) ==
    [present |-> TRUE, keys |-> InitialKeys, session_id |-> session_id,
     user_id |-> None, user_type |-> "unknown", registered |-> FALSE,
     context |-> InitialContext, conversation_history |-> <<>>]

create_session(st, n) ==
    LET session_id == Uuids[n + 1]
    IN  [id |-> session_id, store |-> [st EXCEPT ![session_id] = InitialSession(session_id)]]

get_session(st, session_id) == st[session_id]

OrEmpty(data) == IF data.present THEN data ELSE EmptyDict

(* dict.update: every key of `updates` takes the value `updates` gives it, *)
(* whatever that value is; the other keys keep theirs.  dict_update_deep   *)
(* is what it would be if a nested context were merged key by key.         *)
dict_update_deep(data, updates) ==
    LET Deep(old, new) ==
            [c \in DOMAIN old |->
                IF c = "keys" THEN old.keys \cup new.keys
                ELSE IF c \in new.keys THEN new[c]
                ELSE old[c]]
    IN  [k \in DOMAIN data |->
            IF k = "keys" THEN data.keys \cup DOMAIN updates
            ELSE IF k = "context" /\ k \in DOMAIN updates THEN Deep(data.context, updates.context)
            ELSE IF k \in DOMAIN updates THEN updates[k]
            ELSE data[k]]

dict_update(data, updates) ==
    [k \in DOMAIN data |->
        IF k = "keys" THEN data.keys \cup DOMAIN updates
        ELSE IF k \in DOMAIN updates THEN updates[k]
        ELSE data[k]]

(* update_session, were the record replaced by the updates rather than     *)
(* merged with them.                                                       *)
update_session_replacing(st, session_id, updates) ==
    [st EXCEPT ![session_id] = dict_update(EmptyDict, updates)]

update_session(st, session_id, updates) ==
    LET data == OrEmpty(get_session(st, session_id))
        merged == dict_update(data, updates)
    IN  [st EXCEPT ![session_id] = merged]

Trim(hist) ==
    IF Len(hist) > max_history /\ max_history > 0
    THEN SubSeq(hist, Len(hist) - max_history + 1, Len(hist))
    ELSE hist

(* add_message, were the record written built anew around the history      *)
(* instead of being the one just read.                                     *)
add_message_rebuilt(st, session_id, role, content) ==
    LET data == OrEmpty(get_session(st, session_id))
        hist == Append(data.conversation_history, [role |-> role, content |-> content])
    IN  [st EXCEPT ![session_id] =
            [InitialSession(session_id) EXCEPT !.conversation_history = Trim(hist)]]

add_message(st, session_id, role, content) ==
    LET data == OrEmpty(get_session(st, session_id))
        hist == Append(data.conversation_history, [role |-> role, content |-> content])
    IN  [st EXCEPT ![session_id] =
            [data EXCEPT !.keys = @ \cup {"conversation_history"},
                         !.conversation_history = Trim(hist)]]

(***************************************************************************)
(* Relational store (DatabaseService).  The catalog is fixed; users,       *)
(* inventory, orders and order items are tables (sets of rows).            *)
(***************************************************************************)
Tomato == <<"T", "o", "m", "a", "t", "o">>
Onion == <<"O", "n", "i", "o", "n">>

Products == {[product_id |-> 1, product_name |-> Tomato],
             [product_id |-> 2, product_name |-> Onion]}

NoProduct == [product_id |-> 0, product_name |-> <<>>]

UserIds == <<"U1", "U2", "U3", "U4">>
OrderIds == <<"O1", "O2", "O3", "O4">>

NoUser == [user_id |-> None, phone |-> None, user_type |-> None]

(* The lookup, were it to find nobody (what register_user_handler makes   *)
(* of a lookup that raised).                                               *)
get_user_by_phone_nobody(d, phone) == NoUser

get_user_by_phone(d, phone) ==
    IF \E u \in d.users : u.phone = phone
    THEN CHOOSE u \in d.users : u.phone = phone
    ELSE NoUser

create_user(d, phone, user_type) ==
    LET user_id == UserIds[Cardinality(d.users) + 1]
    IN  [id |-> user_id,
         db |-> [d EXCEPT !.users = @ \cup
                    {[user_id |-> user_id, phone |-> phone, user_type |-> user_type]}]]

get_product_by_name(name) ==
    IF \E p \in Products : Lower(p.product_name) = Lower(name)
    THEN CHOOSE p \in Products : Lower(p.product_name) = Lower(name)
    ELSE NoProduct

(* get_available_inventory, were the status of a line not looked at.       *)
get_available_inventory_any_status(d, product_id) ==
    {i \in d.inventory : /\ i.product_id = product_id
                         /\ i.available_date <= Today}

get_available_inventory(d, product_id) ==
    {i \in d.inventory : /\ i.product_id = product_id
                         /\ i.status = "active"
                         /\ i.available_date <= Today}

db_add_inventory(d, supplier_id, product_id, quantity, price, dates, image_url) ==
    LET inventory_id == Cardinality(d.inventory) + 1
    IN  [id |-> inventory_id,
         db |-> [d EXCEPT !.inventory = @ \cup
                    {[inventory_id |-> inventory_id, supplier_id |-> supplier_id,
                      product_id |-> product_id, quantity_kg |-> quantity,
                      price_per_unit |-> price, available_date |-> dates.available_date,
                      expiry_date |-> dates.expiry_date, image_url |-> image_url,
                      status |-> "active"]}]]

(* create_order, were the caller's id written to the supplier column.      *)
create_order_swapped(d, customer_id, delivery_date, delivery_location, total_amount) ==
    LET order_id == OrderIds[Cardinality(d.orders) + 1]
    IN  [id |-> order_id,
         db |-> [d EXCEPT !.orders = @ \cup
                    {[order_id |-> order_id, customer_id |-> None,
                      supplier_id |-> customer_id, delivery_date |-> delivery_date,
                      delivery_location |-> delivery_location,
                      total_amount |-> total_amount, status |-> "pending"]}]]

db_create_order(d, customer_id, delivery_date, delivery_location, total_amount) ==
    LET order_id == OrderIds[Cardinality(d.orders) + 1]
    IN  [id |-> order_id,
         db |-> [d EXCEPT !.orders = @ \cup
                    {[order_id |-> order_id, customer_id |-> customer_id,
                      supplier_id |-> None, delivery_date |-> delivery_date,
                      delivery_location |-> delivery_location,
                      total_amount |-> total_amount, status |-> "pending"]}]]

(* add_order_items, were the lines of the products ordered marked sold     *)
(* out.                                                                    *)
add_order_items_selling_out(d, order_id, items_list) ==
    LET n == Cardinality(d.order_items)
        ordered == {items_list[k].product_id : k \in 1..Len(items_list)}
    IN  [d EXCEPT !.order_items = @ \cup
            {[item_id |-> n + k, order_id |-> order_id,
              product_id |-> items_list[k].product_id,
              quantity_kg |-> items_list[k].quantity_kg,
              price_per_unit |-> items_list[k].price_per_unit] : k \in 1..Len(items_list)},
                  !.inventory = {IF i.product_id \in ordered
                                 THEN [i EXCEPT !.status = "sold_out"] ELSE i : i \in @}]

add_order_items(d, order_id, items_list) ==
    LET n == Cardinality(d.order_items)
    IN  [d EXCEPT !.order_items = @ \cup
            {[item_id |-> n + k, order_id |-> order_id,
              product_id |-> items_list[k].product_id,
              quantity_kg |-> items_list[k].quantity_kg,
              price_per_unit |-> items_list[k].price_per_unit] : k \in 1..Len(items_list)}]

(***************************************************************************)
(* Entity resolver: difflib.SequenceMatcher(None, a, b).ratio() is         *)
(* 2*M/(len(a)+len(b)), M the size of the matching blocks found by taking  *)
(* the longest common block (earliest in a, then earliest in b) and        *)
(* recursing to its left and to its right.  A score is kept as the         *)
(* fraction num/den and compared by cross-multiplication.                  *)
(***************************************************************************)
RECURSIVE RunLength(_, _, _, _, _, _)
RunLength(a, b, i, j, ahi, bhi) ==
    IF i <= ahi /\ j <= bhi /\ a[i] = b[j] THEN 1 + RunLength(a, b, i + 1, j + 1, ahi, bhi)
    ELSE 0

find_longest_match(a, b, alo, ahi, blo, bhi) ==
    LET blocks == {[i |-> i, j |-> j, k |-> RunLength(a, b, i, j, ahi, bhi)] :
                        i \in alo..ahi, j \in blo..bhi}
        Better(x, y) == \/ x.k > y.k
                        \/ x.k = y.k /\ x.i < y.i
                        \/ x.k = y.k /\ x.i = y.i /\ x.j <= y.j
    IN  CHOOSE x \in blocks : \A y \in blocks : Better(x, y)

RECURSIVE MatchSize(_, _, _, _, _, _)
MatchSize(a, b, alo, ahi, blo, bhi) ==
    IF alo > ahi \/ blo > bhi THEN 0
    ELSE LET Around(m) ==
                 IF m.k = 0 THEN 0
                 ELSE m.k + MatchSize(a, b, alo, m.i - 1, blo, m.j - 1)
                          + MatchSize(a, b, m.i + m.k, ahi, m.j + m.k, bhi)
         IN  Around(find_longest_match(a, b, alo, ahi, blo, bhi))

ratio(a, b) ==
    IF Len(a) + Len(b) = 0 THEN [num |-> 1, den |-> 1]
    ELSE [num |-> 2 * MatchSize(a, b, 1, Len(a), 1, Len(b)), den |-> Len(a) + Len(b)]

ScoreGt(x, y) == x.num * y.den > y.num * x.den

ScoreGe(x, pct) == x.num * 100 >= pct * x.den

get_all_products == <<CHOOSE p \in Products : p.product_name = Onion,
                      CHOOSE p \in Products : p.product_name = Tomato>>

ZeroScore == [num |-> 0, den |-> 1]

RECURSIVE BestMatch(_, _, _, _)
BestMatch(target, products, best, best_score) ==
    IF products = <<>> THEN [product |-> best, score |-> best_score]
    ELSE LET p == Head(products)
             Keep(cand, score) ==
                 IF cand # <<>> /\ ScoreGt(score, best_score)
                 THEN BestMatch(target, Tail(products), p, score)
                 ELSE BestMatch(target, Tail(products), best, best_score)
         IN  Keep(Lower(Strip(p.product_name)),
                  ratio(target, Lower(Strip(p.product_name))))

(* fuzzy_get_product_by_name, were the best match returned whatever its     *)
(* score.                                                                  *)
fuzzy_get_product_by_name_any_score(name, threshold) ==
    LET Search(target) ==
            IF target = <<>> THEN [product |-> NoProduct, score |-> ZeroScore]
            ELSE BestMatch(target, get_all_products, NoProduct, ZeroScore)
    IN  Search(Lower(Strip(name)))

fuzzy_get_product_by_name(name, threshold) ==
    LET Accept(found) ==
            IF ScoreGe(found.score, threshold) THEN found
            ELSE [product |-> NoProduct, score |-> found.score]
        Search(target) ==
            IF target = <<>> THEN [product |-> NoProduct, score |-> ZeroScore]
            ELSE Accept(BestMatch(target, get_all_products, NoProduct, ZeroScore))
    IN  Search(Lower(Strip(name)))

Contains(s, sub) ==
    \E i \in 1..(Len(s) - Len(sub) + 1) : SubSeq(s, i, i + Len(sub) - 1) = sub

(***************************************************************************)
(* Tool registry.  A message is what an f-string of the code builds: its   *)
(* kind, the name or identifier interpolated into it, and any free text.   *)
(***************************************************************************)
Msg(k, name, text) == [k |-> k, name |-> name, text |-> text, corrected_from |-> <<>>]

NoData ==
    [kind |-> "null", image_url |-> None, user_id |-> None, order_id |-> None,
     inventory_id |-> 0, rows |-> {}]

ListData == [NoData EXCEPT !.kind = "list"]

ok(data, message) == [success |-> TRUE, data |-> data, message |-> message]

fail(message) == [success |-> FALSE, data |-> NoData, message |-> message]

NoArgs ==
    [user_type |-> "", phone |-> "", product_name |-> <<>>, quantity_kg |-> <<>>,
     price_per_unit |-> <<>>, available_date |-> "", expiry_date |-> "",
     generate_image |-> FALSE, items |-> <<>>, delivery_date |-> "",
     delivery_location |-> "", query |-> <<>>, text |-> <<>>,
     days_threshold |-> <<>>, start_date |-> "", end_date |-> ""]

IsoStrings == {"D-1", "D+0", "D+1"}

fromisoformat(s) ==
    CASE s = "D-1" -> Today - 1
      [] s = "D+0" -> Today
      [] s = "D+1" -> Today + 1

isoformat(d) ==
    CASE d = Today - 1 -> "D-1"
      [] d = Today -> "D+0"
      [] d = Today + 1 -> "D+1"

Ret(res, st, d, touched) ==
    [raised |-> FALSE, exc |-> "", res |-> res, store |-> st, db |-> d, touched |-> touched]

Raise(exc, st, d, touched) ==
    [raised |-> TRUE, exc |-> exc, res |-> fail(Msg("", "", <<>>)), store |-> st, db |-> d,
     touched |-> touched]

register_user_handler(args, session_id, st, d) ==
    LET user_type_raw == args.user_type
        phone == args.phone
        existing == get_user_by_phone(d, phone)
        created == create_user(d, phone, user_type_raw)
    IN  IF session_id = "" THEN Ret(fail(Msg("session_id is required", "", <<>>)), st, d, FALSE)
        ELSE IF user_type_raw \notin {"customer", "supplier"}
        THEN Ret(fail(Msg("user_type must be 'customer' or 'supplier'", "", <<>>)), st, d, FALSE)
        ELSE IF phone = "" THEN Ret(fail(Msg("phone is required", "", <<>>)), st, d, FALSE)
        ELSE IF existing # NoUser
        THEN Ret(ok([NoData EXCEPT !.kind = "dict", !.user_id = existing.user_id],
                    Msg("You're already registered", "", <<>>)),
                 update_session(st, session_id,
                    [user_id |-> existing.user_id, user_type |-> existing.user_type,
                     registered |-> TRUE]),
                 d, TRUE)
        ELSE Ret(ok([NoData EXCEPT !.kind = "dict", !.user_id = created.id],
                    Msg("Registration complete", user_type_raw, <<>>)),
                 update_session(st, session_id,
                    [user_id |-> created.id, user_type |-> user_type_raw,
                     registered |-> TRUE]),
                 created.db, TRUE)

(***************************************************************************)
(* The item loop of create_order_handler: each item is converted,          *)
(* resolved and priced in turn; the first item that fails ends the call.   *)
(***************************************************************************)
(* min(), were it max().                                                   *)
MaxPrice(inv_list) ==
    CHOOSE x \in {i.price_per_unit : i \in inv_list} :
        \A y \in {i.price_per_unit : i \in inv_list} : x >= y

MinPrice(inv_list) ==
    CHOOSE x \in {i.price_per_unit : i \in inv_list} :
        \A y \in {i.price_per_unit : i \in inv_list} : x <= y

(* The item loop, were it to skip an item it cannot resolve or price.      *)
RECURSIVE OrderItemsSkipping(_, _, _, _)
OrderItemsSkipping(items, d, order_items, total) ==
    IF items = <<>>
    THEN [outcome |-> "ok", pname |-> <<>>, order_items |-> order_items, total |-> total]
    ELSE LET it == Head(items)
             product == get_product_by_name(it.product_name)
             inv_list == get_available_inventory(d, product.product_id)
         IN  IF it.quantity_kg = <<>> \/ product = NoProduct \/ inv_list = {}
             THEN OrderItemsSkipping(Tail(items), d, order_items, total)
             ELSE OrderItemsSkipping(Tail(items), d,
                     Append(order_items,
                        [product_id |-> product.product_id,
                         product_name |-> product.product_name,
                         quantity_kg |-> it.quantity_kg[1],
                         price_per_unit |-> MinPrice(inv_list)]),
                     total + it.quantity_kg[1] * MinPrice(inv_list))

RECURSIVE OrderItems(_, _, _, _)
OrderItems(items, d, order_items, total) ==
    IF items = <<>>
    THEN [outcome |-> "ok", pname |-> <<>>, order_items |-> order_items, total |-> total]
    ELSE LET it == Head(items)
             pname == it.product_name
             product == get_product_by_name(pname)
             inv_list == get_available_inventory(d, product.product_id)
         IN  IF it.quantity_kg = <<>>
             THEN [outcome |-> "TypeError", pname |-> pname, order_items |-> order_items,
                   total |-> total]
             ELSE IF product = NoProduct
             THEN [outcome |-> "unknown", pname |-> pname, order_items |-> order_items,
                   total |-> total]
             ELSE IF inv_list = {}
             THEN [outcome |-> "no_inventory", pname |-> pname, order_items |-> order_items,
                   total |-> total]
             ELSE OrderItems(Tail(items), d,
                     Append(order_items,
                        [product_id |-> product.product_id,
                         product_name |-> product.product_name,
                         quantity_kg |-> it.quantity_kg[1],
                         price_per_unit |-> MinPrice(inv_list)]),
                     total + it.quantity_kg[1] * MinPrice(inv_list))

(* The caller checks of create_order_handler (order_caller), and what they *)
(* would be were every caller let through.                                 *)
order_caller_unchecked(session) == "ok"

order_caller(session) ==
    IF ~session.present \/ ~session.registered THEN "unregistered"
    ELSE IF session.user_id = None THEN "no_user_id"
    ELSE "ok"

(* The date guard of create_order_handler (in_the_past), and what it would *)
(* be with <= for <.                                                       *)
in_the_past_or_today(delivery_date) == delivery_date <= Today

in_the_past(delivery_date) == delivery_date < Today

(* create_order_handler.  db.create_order commits the order row in a       *)
(* transaction of its own before db.add_order_items opens the next one:    *)
(* when the second insert fails (ext) the exception leaves the row behind. *)
create_order_handler(args, session_id, st, d, ext) ==
    LET session == get_session(st, session_id)
        customer_id == session.user_id
        items == args.items
        delivery_date_raw == args.delivery_date
        delivery_location == args.delivery_location
        delivery_date == fromisoformat(delivery_date_raw)
        Placed(loop, order) ==
            IF ext # "ok" THEN Raise("OperationalError", st, order.db, TRUE)
            ELSE
            Ret(ok([NoData EXCEPT !.kind = "dict", !.order_id = order.id],
                   Msg("Order confirmed!", order.id, <<>>)),
                st, add_order_items(order.db, order.id, loop.order_items), TRUE)
        Priced(loop) ==
            IF loop.outcome = "TypeError"
            THEN Raise("TypeError", st, d, loop.order_items # <<>>)
            ELSE IF loop.outcome = "unknown"
            THEN Ret(fail(Msg("Unknown product", "", loop.pname)), st, d, TRUE)
            ELSE IF loop.outcome = "no_inventory"
            THEN Ret(fail(Msg("No available inventory for", "", loop.pname)), st, d, TRUE)
            ELSE Placed(loop, db_create_order(d, customer_id, delivery_date, delivery_location,
                                              loop.total))
    IN  IF session_id = "" THEN Ret(fail(Msg("session_id is required", "", <<>>)), st, d, FALSE)
        ELSE IF order_caller(session) = "unregistered"
        THEN Ret(fail(Msg("User must be registered to create an order", "", <<>>)), st, d, FALSE)
        ELSE IF order_caller(session) = "no_user_id"
        THEN Ret(fail(Msg("Session missing user_id", "", <<>>)), st, d, FALSE)
        ELSE IF items = <<>> \/ delivery_date_raw = "" \/ delivery_location = ""
        THEN Ret(fail(Msg("items, delivery_date, and delivery_location are required", "", <<>>)),
                 st, d, FALSE)
        ELSE IF delivery_date_raw \notin IsoStrings THEN Raise("ValueError", st, d, FALSE)
        ELSE IF in_the_past(delivery_date)
        THEN Ret(fail(Msg("Delivery date is in the past", isoformat(delivery_date), <<>>)),
                 st, d, FALSE)
        ELSE Priced(OrderItems(items, d, <<>>, 0))

ImageUrl == "/static/images/product.png"

(* The caller check of the supplier tools (supplier_check), and what it    *)
(* would be without the comparison of user_type.                           *)
registered_check(session) == session.present /\ session.registered

supplier_check(session) ==
    session.present /\ session.user_type = "supplier" /\ session.registered

(* The image step of add_inventory_handler: an exception of the image      *)
(* service is caught and leaves image_url None.  try_generate_image_kept   *)
(* is what it would be were a url set all the same.                        *)
try_generate_image_kept(gen_img, ext) == IF gen_img THEN ImageUrl ELSE None

try_generate_image(gen_img, ext) == IF gen_img /\ ext = "ok" THEN ImageUrl ELSE None

add_inventory_handler(args, session_id, st, d, ext) ==
    LET session == get_session(st, session_id)
        supplier_id == session.user_id
        gen_img == args.generate_image
        dates == [available_date |-> fromisoformat(args.available_date),
                  expiry_date |-> IF args.expiry_date = "" THEN <<>>
                                  ELSE <<fromisoformat(args.expiry_date)>>]
        image_url == try_generate_image(gen_img, ext)
        note == IF image_url # None THEN "Image" ELSE IF gen_img THEN "Image generation failed."
                ELSE ""
        Added(product, pname, corrected, added) ==
            Ret(ok([NoData EXCEPT !.kind = "dict", !.inventory_id = added.id,
                                  !.image_url = image_url],
                   [Msg("Inventory added", note, product.product_name)
                       EXCEPT !.corrected_from = IF corrected THEN pname ELSE <<>>]),
                st, added.db, TRUE)
        Resolved(product, pname, corrected) ==
            IF product = NoProduct THEN Ret(fail(Msg("Unknown product", "", pname)), st, d, TRUE)
            ELSE IF args.available_date = "" THEN Raise("IntegrityError", st, d, TRUE)
            ELSE Added(product, pname, corrected,
                       db_add_inventory(d, supplier_id, product.product_id, args.quantity_kg[1],
                                        args.price_per_unit[1], dates, image_url))
        Resolve(pname, exact) ==
            IF exact # NoProduct THEN Resolved(exact, pname, FALSE)
            ELSE Resolved(fuzzy_get_product_by_name(pname, 80).product, pname, TRUE)
    IN  IF session_id = "" THEN Ret(fail(Msg("session_id is required", "", <<>>)), st, d, FALSE)
        ELSE IF ~supplier_check(session)
        THEN Ret(fail(Msg("User must be a registered supplier", "", <<>>)), st, d, FALSE)
        ELSE IF args.quantity_kg = <<>> \/ args.price_per_unit = <<>>
        THEN Raise("TypeError", st, d, FALSE)
        ELSE IF args.available_date # "" /\ args.available_date \notin IsoStrings
        THEN Raise("ValueError", st, d, FALSE)
        ELSE IF args.expiry_date # "" /\ args.expiry_date \notin IsoStrings
        THEN Raise("ValueError", st, d, FALSE)
        ELSE Resolve(Strip(args.product_name), get_product_by_name(Strip(args.product_name)))

RECURSIVE FirstContained(_, _)
FirstContained(products, ql) ==
    IF products = <<>> THEN NoProduct
    ELSE LET pn == Strip(Head(products).product_name)
         IN  IF pn # <<>> /\ Contains(ql, Lower(pn)) THEN Head(products)
             ELSE FirstContained(Tail(products), ql)

generate_product_image_handler(args, session_id, st, d, ext) ==
    LET Resolved(product, pname, corrected) ==
            IF product = NoProduct THEN Ret(fail(Msg("Unknown product", "", pname)), st, d, TRUE)
            ELSE IF ext # "ok"
            THEN Ret(fail(Msg("Image generation failed", "", <<>>)), st, d, TRUE)
            ELSE Ret(ok([NoData EXCEPT !.kind = "dict", !.image_url = ImageUrl],
                        [Msg("Image generated for", ImageUrl, product.product_name)
                            EXCEPT !.corrected_from = IF corrected THEN pname ELSE <<>>]),
                     st, d, TRUE)
        Loosely(pname, sub) ==
            IF sub # NoProduct THEN Resolved(sub, pname, TRUE)
            ELSE Resolved(fuzzy_get_product_by_name(pname, 65).product, pname, TRUE)
        Resolve(pname, exact) ==
            IF pname = <<>> THEN Ret(fail(Msg("product_name is required", "", <<>>)), st, d, FALSE)
            ELSE IF exact # NoProduct THEN Resolved(exact, pname, FALSE)
            ELSE Loosely(pname, FirstContained(get_all_products, Lower(pname)))
        Named(pname) == Resolve(pname, get_product_by_name(pname))
    IN  IF Strip(args.product_name) # <<>> THEN Named(Strip(args.product_name))
        ELSE Named(Strip(args.query))

get_supplier_inventory(d, supplier_id) == {i \in d.inventory : i.supplier_id = supplier_id}

check_supplier_stock_handler(args, session_id, st, d) ==
    LET session == get_session(st, session_id)
        items == get_supplier_inventory(d, session.user_id)
    IN  IF session_id = "" THEN Ret(fail(Msg("session_id is required", "", <<>>)), st, d, FALSE)
        ELSE IF ~supplier_check(session)
        THEN Ret(fail(Msg("User must be a registered supplier", "", <<>>)), st, d, FALSE)
        ELSE IF items = {}
        THEN Ret(ok(ListData, Msg("You have no inventory items yet.", "", <<>>)), st, d, TRUE)
        ELSE Ret(ok(ListData, Msg("Your Current Inventory", session.user_id, <<>>)), st, d, TRUE)

get_supplier_schedule(d, supplier_id, start_date, end_date) ==
    {o \in d.orders : /\ o.supplier_id = supplier_id
                      /\ o.status = "confirmed"
                      /\ o.delivery_date >= start_date
                      /\ o.delivery_date <= end_date}

get_supplier_schedule_handler(args, session_id, st, d) ==
    LET session == get_session(st, session_id)
        defaulted == args.start_date = "" \/ args.end_date = ""
        start_date == IF defaulted THEN Today - Weekday ELSE fromisoformat(args.start_date)
        end_date == IF defaulted THEN Today - Weekday + 6 ELSE fromisoformat(args.end_date)
        orders == get_supplier_schedule(d, session.user_id, start_date, end_date)
    IN  IF session_id = "" THEN Ret(fail(Msg("session_id is required", "", <<>>)), st, d, FALSE)
        ELSE IF ~supplier_check(session)
        THEN Ret(fail(Msg("User must be a registered supplier", "", <<>>)), st, d, FALSE)
        ELSE IF ~defaulted /\ {args.start_date, args.end_date} \ IsoStrings # {}
        THEN Raise("ValueError", st, d, FALSE)
        ELSE IF orders = {}
        THEN Ret(ok(ListData, Msg("No confirmed orders scheduled in the selected range.", "",
                                  <<>>)), st, d, TRUE)
        ELSE Ret(ok(ListData, Msg("Your Delivery Schedule", session.user_id, <<>>)), st, d, TRUE)

check_expiring_inventory(d, supplier_id, days_threshold) ==
    {i \in d.inventory : /\ i.supplier_id = supplier_id
                         /\ i.status = "active"
                         /\ i.expiry_date # <<>>
                         /\ i.expiry_date[1] <= Today + days_threshold}

discount_for(days_left) == IF days_left < 1 THEN 30 ELSE 20

(* suggest_flash_sale_handler: one suggestion per expiring line, with the  *)
(* discount for the days it has left and the discounted price (kept in     *)
(* hundredths of the price unit).                                          *)
suggest_flash_sale_handler(args, session_id, st, d) ==
    LET session == get_session(st, session_id)
        days_threshold == IF args.days_threshold = <<>> THEN 3 ELSE args.days_threshold[1]
        expiring == check_expiring_inventory(d, session.user_id, days_threshold)
        suggestions ==
            {[inventory_id |-> it.inventory_id,
              discount_percent |-> discount_for(it.expiry_date[1] - Today),
              new_price |-> it.price_per_unit * (100 - discount_for(it.expiry_date[1] - Today))] :
                it \in expiring}
    IN  IF session_id = "" THEN Ret(fail(Msg("session_id is required", "", <<>>)), st, d, FALSE)
        ELSE IF ~supplier_check(session)
        THEN Ret(fail(Msg("User must be a registered supplier", "", <<>>)), st, d, FALSE)
        ELSE IF expiring = {}
        THEN Ret(ok(ListData, Msg("No expiring products", "", <<>>)), st, d, TRUE)
        ELSE Ret(ok([ListData EXCEPT !.rows = suggestions],
                    Msg("Expiring Inventory Alert", session.user_id, <<>>)), st, d, TRUE)

WordToday == <<"t", "o", "d", "a", "y">>

parse_date_string_handler(args, session_id, st, d) ==
    LET raw == Strip(args.text)
        s == Lower(raw)
    IN  IF raw = <<>> THEN Ret(fail(Msg("text is required", "", <<>>)), st, d, FALSE)
        ELSE IF s = WordToday
        THEN Ret(ok([NoData EXCEPT !.kind = "dict"], Msg("Parsed date", isoformat(Today), <<>>)),
                 st, d, FALSE)
        ELSE Ret(fail(Msg("Could not parse date string", "", <<>>)), st, d, FALSE)

get_current_time_handler(args, session_id, st, d) ==
    Ret(ok([NoData EXCEPT !.kind = "dict"], Msg("Today is", isoformat(Today), <<>>)), st, d, FALSE)

search_products(query) ==
    {p \in Products : Contains(Lower(p.product_name), Lower(query))}

(* sum(float(i.quantity_kg) for i in inv_list)                             *)
RECURSIVE total_qty(_)
total_qty(inv_list) ==
    IF inv_list = {} THEN 0
    ELSE LET i == CHOOSE x \in inv_list : TRUE
         IN  i.quantity_kg + total_qty(inv_list \ {i})

(* search_products_handler: one row of data per product found, with the    *)
(* quantity and the lowest price of its available inventory (no price when *)
(* there is none).                                                         *)
search_products_handler(args, session_id, st, d) ==
    LET query == Strip(args.query)
        products == search_products(query)
        Row(p, inv_list) ==
            [product_id |-> p.product_id, available_quantity_kg |-> total_qty(inv_list),
             min_price_per_unit |-> IF inv_list = {} THEN <<>> ELSE <<MinPrice(inv_list)>>]
        rows == {Row(p, get_available_inventory(d, p.product_id)) : p \in products}
    IN  IF query = <<>> THEN Ret(fail(Msg("query is required", "", <<>>)), st, d, FALSE)
        ELSE IF products = {}
        THEN Ret(ok(ListData, Msg("No products found matching", "", query)), st, d, TRUE)
        ELSE Ret(ok([ListData EXCEPT !.rows = rows], Msg("Found products", "", query)),
                 st, d, TRUE)

(* get_pricing_insights_handler, were the correction not mentioned.        *)
get_pricing_insights_handler_silent(args, session_id, st, d) ==
    LET Resolved(product, product_name) ==
            IF product = NoProduct
            THEN Ret(fail(Msg("Unknown product", "", product_name)), st, d, TRUE)
            ELSE Ret(ok([NoData EXCEPT !.kind = "dict"],
                        Msg("Current market prices for", "", product.product_name)),
                     st, d, TRUE)
        Resolve(product_name, exact) ==
            IF product_name = <<>>
            THEN Ret(fail(Msg("product_name is required", "", <<>>)), st, d, FALSE)
            ELSE IF exact # NoProduct THEN Resolved(exact, product_name)
            ELSE Resolved(fuzzy_get_product_by_name(product_name, 80).product, product_name)
    IN  Resolve(Strip(args.product_name), get_product_by_name(Strip(args.product_name)))

get_pricing_insights_handler(args, session_id, st, d) ==
    LET Resolved(product, product_name, corrected) ==
            IF product = NoProduct
            THEN Ret(fail(Msg("Unknown product", "", product_name)), st, d, TRUE)
            ELSE Ret(ok([NoData EXCEPT !.kind = "dict"],
                        [Msg("Current market prices for", "", product.product_name)
                            EXCEPT !.corrected_from = IF corrected THEN product_name ELSE <<>>]),
                     st, d, TRUE)
        Resolve(product_name, exact) ==
            IF product_name = <<>>
            THEN Ret(fail(Msg("product_name is required", "", <<>>)), st, d, FALSE)
            ELSE IF exact # NoProduct THEN Resolved(exact, product_name, FALSE)
            ELSE Resolved(fuzzy_get_product_by_name(product_name, 80).product, product_name,
                          TRUE)
    IN  Resolve(Strip(args.product_name), get_product_by_name(Strip(args.product_name)))

rag_query_handler(args, session_id, st, d, ext) ==
    LET query == Strip(args.query)
    IN  IF query = <<>> THEN Ret(fail(Msg("query is required", "", <<>>)), st, d, FALSE)
        ELSE IF ext # "ok" THEN Raise("ConnectionError", st, d, TRUE)
        ELSE Ret(ok(ListData, Msg("Based on product knowledge", "", query)), st, d, TRUE)

get_customer_orders(d, customer_id) == {o \in d.orders : o.customer_id = customer_id}

get_customer_orders_handler(args, session_id, st, d) ==
    LET session == get_session(st, session_id)
        customer_id == session.user_id
        orders == get_customer_orders(d, customer_id)
    IN  IF session_id = "" THEN Ret(fail(Msg("session_id is required", "", <<>>)), st, d, FALSE)
        ELSE IF ~session.present \/ ~session.registered
        THEN Ret(fail(Msg("User must be registered", "", <<>>)), st, d, FALSE)
        ELSE IF customer_id = None
        THEN Ret(fail(Msg("Session missing user_id", "", <<>>)), st, d, FALSE)
        ELSE IF orders = {}
        THEN Ret(ok(ListData, Msg("You have no orders in the selected range.", "", <<>>)),
                 st, d, TRUE)
        ELSE Ret(ok(ListData, Msg("Your Orders", customer_id, <<>>)), st, d, TRUE)

_handlers ==
    {"parse_date_string", "get_current_time", "register_user", "search_products",
     "get_pricing_insights", "rag_query", "create_order", "add_inventory",
     "generate_product_image", "check_supplier_stock", "get_supplier_schedule",
     "suggest_flash_sale", "get_customer_orders"}

handler(name, args, session_id, st, d, ext) ==
    CASE name = "parse_date_string" -> parse_date_string_handler(args, session_id, st, d)
      [] name = "get_current_time" -> get_current_time_handler(args, session_id, st, d)
      [] name = "register_user" -> register_user_handler(args, session_id, st, d)
      [] name = "search_products" -> search_products_handler(args, session_id, st, d)
      [] name = "get_pricing_insights" -> get_pricing_insights_handler(args, session_id, st, d)
      [] name = "rag_query" -> rag_query_handler(args, session_id, st, d, ext)
      [] name = "create_order" -> create_order_handler(args, session_id, st, d, ext)
      [] name = "add_inventory" -> add_inventory_handler(args, session_id, st, d, ext)
      [] name = "generate_product_image" ->
            generate_product_image_handler(args, session_id, st, d, ext)
      [] name = "check_supplier_stock" -> check_supplier_stock_handler(args, session_id, st, d)
      [] name = "get_supplier_schedule" -> get_supplier_schedule_handler(args, session_id, st, d)
      [] name = "suggest_flash_sale" -> suggest_flash_sale_handler(args, session_id, st, d)
      [] name = "get_customer_orders" -> get_customer_orders_handler(args, session_id, st, d)

(***************************************************************************)
(* ToolRegistry.execute: an unregistered name is a failed result; an       *)
(* exception of the handler becomes a failed result carrying its text.     *)
(* The writes a handler made before it raised stay made.                   *)
(***************************************************************************)
(* execute, were the handler awaited outside the try.                      *)
execute_uncaught(name, args, session_id, st, d, ext) ==
    IF name \notin _handlers
    THEN Ret(fail(Msg("Unknown tool", name, <<>>)), st, d, FALSE)
    ELSE handler(name, args, session_id, st, d, ext)

execute(name, args, session_id, st, d, ext) ==
    LET Caught(h) ==
            IF h.raised
            THEN [h EXCEPT !.raised = FALSE, !.res = fail(Msg("failed", name, <<h.exc>>))]
            ELSE h
    IN  IF name \notin _handlers
        THEN Ret(fail(Msg("Unknown tool", name, <<>>)), st, d, FALSE)
        ELSE Caught(handler(name, args, session_id, st, d, ext))

(***************************************************************************)
(* Conversation orchestrator.  `turn` is the message being processed:      *)
(* where process_message stands (pc), the locals of _llm_direct_flow, what *)
(* was returned, and counters of the calls made for this message; `denied` *)
(* is a record kept for the properties (the code keeps none): the tools    *)
(* that answered this message with an authorization failure.  `last` is    *)
(* the most recent call of ToolRegistry.execute and what it returned.      *)
(***************************************************************************)
(* The failed results of the caller checks of the handlers.                *)
IsAuthorizationFailure(res) ==
    /\ ~res.success
    /\ res.message.k \in {"User must be a registered supplier",
                          "User must be registered to create an order",
                          "User must be registered"}

Text(t) == Msg("text", "", t)

NoneMsg == Msg("None", "", <<>>)

IsBlank(content) == content.k \in {"text", "None"} /\ Strip(content.text) = <<>>

IsFalsy(content) == content.k \in {"text", "None"} /\ content.text = <<>>

NoResult == [type |-> None, content |-> NoneMsg, url |-> None]

NoMessages == [kind |-> None, content |-> NoneMsg, registered |-> FALSE]

IdleTurn ==
    [pc |-> "idle", session_id |-> None, user_message |-> <<>>, iter |-> 0,
     last_tool_msg |-> NoneMsg, messages |-> NoMessages, result |-> NoResult,
     hist0 |-> <<>>, missing |-> FALSE, exc |-> "", nTool |-> 0, nFinal |-> 0, nExec |-> 0,
     denied |-> {}]

NoCall ==
    [name |-> None, args |-> NoArgs, session_id |-> None, ext |-> "ok",
     res |-> fail(NoneMsg), exc |-> "", touched |-> FALSE, raised |-> FALSE]

(* _build_messages, were the trailing input left out.                      *)
_build_messages_without_input(session, kind, user_message) ==
    [kind |-> kind, content |-> NoneMsg, registered |-> session.registered]

(* _build_messages: the preface drawn from the session handed in, and the  *)
(* trailing user-role input.                                               *)
_build_messages(session, kind, user_message) ==
    [kind |-> kind, content |-> user_message, registered |-> session.registered]

(***************************************************************************)
(* The session store one Redis command at a time.  Every method of         *)
(* SessionManager awaits each command it sends, and between two commands   *)
(* other coroutines run and time passes.  `expiry` is the time a key has   *)
(* left, `tasks` the calls in flight: the method, where it stands (pc),    *)
(* what it read (data) and what it returns.  A call made by                *)
(* process_message carries the part of the message it belongs to (phase).  *)
(* `idle` is the time since a key was last read or written and `log` what  *)
(* was appended to each history, in the order of the writes, whether a     *)
(* session was written to at all and whether two writers were ever in      *)
(* flight for it at once.                                                  *)
(***************************************************************************)
ttl == 2
MaxTasks == 2
MaxAppends == 4

TaskIds == 1..MaxTasks

redis_get(st, key) == st[key]

redis_expire(e, st, key) == IF st[key].present THEN [e EXCEPT ![key] = ttl] ELSE e

(* SETEX, were the key written without the session id.                     *)
redis_setex_one_key(st, key, value) == [k \in DOMAIN st |-> value]

redis_setex(st, key, value) == [st EXCEPT ![key] = value]

(* hist[-n_messages:] of a Python list: -0 is 0, the whole list.           *)
LastMessages(hist, n_messages) ==
    IF n_messages = 0 \/ n_messages >= Len(hist) THEN hist
    ELSE SubSeq(hist, Len(hist) - n_messages + 1, Len(hist))

get_conversation_context(data, n_messages) ==
    IF ~data.present THEN <<>> ELSE LastMessages(data.conversation_history, n_messages)

NoUpdates == [registered |-> FALSE]

NoEntry == [role |-> None, content |-> NoneMsg]

NoTask ==
    [op |-> None, session_id |-> None, pc |-> "none", data |-> Absent, updates |-> NoUpdates,
     entry |-> NoEntry, n_messages |-> 0, ret |-> <<>>, phase |-> None, loaded |-> FALSE,
     exc |-> ""]

Writers == {"update_session", "add_message"}

IsWriter(task) == task.pc # "none" /\ (task.op \in Writers \/ task.phase # None)

(* What update_session and add_message hand to SETEX: the record read,     *)
(* merged or appended to.                                                  *)
Written(task) ==
    LET read == [s \in SessionIds |-> task.data]
    IN  IF task.op = "update_session"
        THEN update_session(read, task.session_id, task.updates)[task.session_id]
        ELSE add_message(read, task.session_id, task.entry.role,
                         task.entry.content)[task.session_id]

NoLog ==
    [appended |-> [s \in SessionIds |-> <<>>], overlapped |-> [s \in SessionIds |-> FALSE],
     written |-> [s \in SessionIds |-> FALSE], count |-> [s \in SessionIds |-> 0],
     begun |-> 0]

(***************************************************************************)
(* Conversation flow (models/state_machine.py).  `machine` is one          *)
(* StateMachine: its state, and the last call made on it with what the     *)
(* call returned or raised.                                                *)
(***************************************************************************)
States ==
    {"idle", "registering", "ordering", "confirming_order", "adding_inventory",
     "confirming_inventory", "querying"}

(* The table, were querying left without its way back.                     *)
_transitions_dead_end ==
    [s \in States |->
        CASE s = "idle" -> {"registering", "ordering", "adding_inventory", "querying"}
          [] s = "registering" -> {"idle", "ordering", "adding_inventory", "querying"}
          [] s = "ordering" -> {"confirming_order", "idle"}
          [] s = "confirming_order" -> {"idle"}
          [] s = "adding_inventory" -> {"confirming_inventory", "idle"}
          [] s = "confirming_inventory" -> {"idle"}
          [] s = "querying" -> {}]

_transitions ==
    [s \in States |->
        CASE s = "idle" -> {"registering", "ordering", "adding_inventory", "querying"}
          [] s = "registering" -> {"idle", "ordering", "adding_inventory", "querying"}
          [] s = "ordering" -> {"confirming_order", "idle"}
          [] s = "confirming_order" -> {"idle"}
          [] s = "adding_inventory" -> {"confirming_inventory", "idle"}
          [] s = "confirming_inventory" -> {"idle"}
          [] s = "querying" -> {"idle"}]

can_transition(state, to_state) ==
    LET allowed == IF state \in DOMAIN _transitions THEN _transitions[state] ELSE {}
    IN  to_state \in allowed

NoError == [exc |-> "", from |-> None, to |-> None]

(* transition, were the target assigned before the check.                  *)
transition_unchecked(state, to_state) == [state |-> to_state, error |-> NoError]

transition(state, to_state) ==
    IF ~can_transition(state, to_state)
    THEN [state |-> state, error |-> [exc |-> "ValueError", from |-> state, to |-> to_state]]
    ELSE [state |-> to_state, error |-> NoError]

NoLookup ==
    [name |-> <<>>, threshold |-> 0, exact |-> NoProduct,
     fuzzy |-> [product |-> NoProduct, score |-> ZeroScore]]

NewMachine ==
    [state |-> "idle", op |-> None, to_state |-> None, returned |-> FALSE, error |-> NoError]

Init ==
    /\ store = [s \in SessionIds |-> Absent]
    /\ nextUuid = 0
    /\ db = [users |-> {}, inventory |-> {}, orders |-> {}, order_items |-> {}]
    /\ turn = IdleTurn
    /\ last = NoCall
    /\ nTurns = 0
    /\ expiry = [s \in SessionIds |-> 0]
    /\ idle = [s \in SessionIds |-> 0]
    /\ tasks = [t \in TaskIds |-> NoTask]
    /\ log = NoLog
    /\ machine = NewMachine
    /\ lookup = NoLookup

(* POST /api/sessions, and the Socket.IO handler when no id was sent.      *)
CreateSession ==
    /\ nextUuid < MaxSessions
    /\ store' = create_session(store, nextUuid).store
    /\ nextUuid' = nextUuid + 1
    /\ UNCHANGED <<db, turn, last, nTurns, others>>

Created == {Uuids[i] : i \in 1..nextUuid}

UserMessages == {<<"h", "i">>}

(* process_message up to the call of _llm_direct_flow.                     *)
StartTurn(session_id, user_message) ==
    /\ turn.pc \in {"idle", "done", "raised"}
    /\ nTurns < MaxTurns
    /\ nTurns' = nTurns + 1
    /\ last' = NoCall
    /\ UNCHANGED <<db, others>>
    /\ LET session == get_session(store, session_id)
           t0 == [IdleTurn EXCEPT !.session_id = session_id, !.user_message = user_message,
                                  !.hist0 = session.conversation_history,
                                  !.missing = ~session.present]
       IN  IF ~session.present
           THEN /\ nextUuid < MaxSessions
                /\ nextUuid' = nextUuid + 1
                /\ store' = add_message(create_session(store, nextUuid).store, session_id,
                                        "user", Text(user_message))
                /\ turn' = [t0 EXCEPT !.pc = "raised", !.exc = "AttributeError"]
           ELSE /\ nextUuid' = nextUuid
                /\ store' = add_message(store, session_id, "user", Text(user_message))
                /\ turn' = [t0 EXCEPT !.pc = "loop",
                               !.messages = _build_messages(session, "user", Text(user_message))]

(* A return, were the assistant turn not appended first.                   *)
ReturnUnsaved(t, st, type, content, url) ==
    [turn |-> [t EXCEPT !.pc = "done",
                        !.result = [type |-> type, content |-> content, url |-> url]],
     store |-> st]

(* A return, were every payload plain text.                                *)
ReturnAsText(t, st, type, content, url) ==
    [turn |-> [t EXCEPT !.pc = "done",
                        !.result = [type |-> "text", content |-> content, url |-> None]],
     store |-> add_message(st, t.session_id, "assistant", content)]

(* A return of _llm_direct_flow: the assistant turn is appended, then the  *)
(* payload goes back to the caller.                                        *)
Return(t, st, type, content, url) ==
    [turn |-> [t EXCEPT !.pc = "done",
                        !.result = [type |-> type, content |-> content, url |-> url]],
     store |-> add_message(st, t.session_id, "assistant", content)]

(* `continue`, were the loop `while True`.                                 *)
ContinueUnbounded(t, st) == [turn |-> [t EXCEPT !.iter = @ + 1], store |-> st]

(* `continue`, were the fallback to forget the tool message.               *)
ContinueForgetful(t, st) ==
    IF t.iter + 1 < max_calls
    THEN [turn |-> [t EXCEPT !.iter = @ + 1], store |-> st]
    ELSE Return([t EXCEPT !.iter = @ + 1], st, "text", Text(<<>>), None)

(* `continue`: the next iteration, or past the last one the fallbacks.     *)
Continue(t, st) ==
    IF t.iter + 1 < max_calls
    THEN [turn |-> [t EXCEPT !.iter = @ + 1], store |-> st]
    ELSE IF ~IsFalsy(t.last_tool_msg)
    THEN Return([t EXCEPT !.iter = @ + 1], st, "text", t.last_tool_msg, None)
    ELSE Return([t EXCEPT !.iter = @ + 1], st, "text", Text(<<>>), None)

(***************************************************************************)
(* What the model may answer.  A tool call carries a name and arguments;   *)
(* `ext` is how the outside service the tool uses (image generation,       *)
(* vector search) answers during the call.                                 *)
(***************************************************************************)
Tometo == <<"t", "o", "m", "e", "t", "o">>
Durian == <<"D", "u", "r", "i", "a", "n">>
LowTomato == Lower(Tomato)

Item(product_name, quantity_kg) == [product_name |-> product_name, quantity_kg |-> quantity_kg]

OneTomato == <<Item(LowTomato, <<2>>)>>

RegisterArgs ==
    {[NoArgs EXCEPT !.user_type = c[1], !.phone = c[2]] :
        c \in {<<"admin", "p1">>, <<"supplier", "p1">>, <<"customer", "p2">>}}

CreateOrderArgs ==
    {[NoArgs EXCEPT !.items = c[1], !.delivery_date = c[2], !.delivery_location = c[3]] :
        c \in {<<OneTomato, "D+1", "Bole">>, <<OneTomato, "D+0", "Bole">>,
               <<OneTomato, "D-1", "Bole">>, <<OneTomato, "25/10", "Bole">>,
               <<<<Item(LowTomato, <<1>>), Item(Durian, <<1>>)>>, "D+1", "Bole">>,
               <<<<Item(LowTomato, <<1>>), Item(Onion, <<1>>)>>, "D+1", "Bole">>}}

AddInventoryArgs ==
    {[NoArgs EXCEPT !.product_name = c[1], !.quantity_kg = c[2], !.price_per_unit = c[3],
                    !.available_date = c[4], !.expiry_date = c[5], !.generate_image = c[6]] :
        c \in {<<Tometo, <<5>>, <<10>>, "D+0", "D+1", TRUE>>,
               <<LowTomato, <<>>, <<10>>, "D+0", "", FALSE>>}}

ToolCalls ==
    [name : {"register_user"}, args : RegisterArgs]
    \cup [name : {"create_order"}, args : CreateOrderArgs]
    \cup [name : {"add_inventory"}, args : AddInventoryArgs]
    \cup [name : {"generate_product_image"},
          args : {[NoArgs EXCEPT !.product_name = n] : n \in {Tomato, Durian}}]
    \cup [name : {"get_pricing_insights"}, args : {[NoArgs EXCEPT !.product_name = Tometo]}]
    \cup [name : {"search_products", "rag_query"}, args : {[NoArgs EXCEPT !.query = <<"o">>]}]
    \cup [name : {"parse_date_string"}, args : {[NoArgs EXCEPT !.text = WordToday]}]
    \cup [name : {"get_supplier_schedule"},
          args : {NoArgs, [NoArgs EXCEPT !.start_date = "25/10", !.end_date = "D+1"]}]
    \cup [name : {"get_current_time", "check_supplier_stock", "suggest_flash_sale",
                  "get_customer_orders", "no_such_tool"},
          args : {NoArgs}]

(* The tool calls the model makes inside the message loop.                 *)
LoopCalls ==
    [name : {"register_user"},
     args : {[NoArgs EXCEPT !.user_type = "supplier", !.phone = "p1"]}]
    \cup [name : {"generate_product_image"}, args : {[NoArgs EXCEPT !.product_name = Tomato]}]
    \cup [name : {"rag_query"}, args : {[NoArgs EXCEPT !.query = <<"o">>]}]
    \cup [name : {"check_supplier_stock", "no_such_tool"}, args : {NoArgs}]

UsesExt(call) ==
    \/ call.name \in {"generate_product_image", "rag_query"}
    \/ call.name = "add_inventory" /\ call.args.generate_image

TextReplies == {<<>>, <<" ">>, <<"o", "k">>}

WithinBounds(d) ==
    /\ Cardinality(d.inventory) <= MaxInventory
    /\ Cardinality(d.orders) <= MaxOrders

(* One iteration whose chat() returns a tool call.                         *)
IterToolCall(call, ext) ==
    /\ turn.pc = "loop"
    /\ ext = "ok" \/ UsesExt(call)
    /\ \E r \in {execute(call.name, call.args, turn.session_id, store, db, ext)} :
          LET url == r.res.data.image_url
              t1 == [turn EXCEPT !.nTool = @ + 1, !.nExec = @ + 1,
                                 !.denied = IF IsAuthorizationFailure(r.res)
                                            THEN @ \cup {call.name} ELSE @]
              fresh == get_session(r.store, turn.session_id)
              t2 == [t1 EXCEPT !.last_tool_msg = r.res.message,
                               !.messages = _build_messages(fresh, "tool_context",
                                                            r.res.message)]
          IN  /\ WithinBounds(r.db)
              /\ last' = [name |-> call.name, args |-> call.args,
                          session_id |-> turn.session_id, ext |-> ext, res |-> r.res,
                          exc |-> r.exc, touched |-> r.touched, raised |-> r.raised]
              /\ db' = r.db
              /\ \E out \in {IF r.raised
                              THEN [turn |-> [t1 EXCEPT !.pc = "raised", !.exc = r.exc],
                                    store |-> r.store]
                              ELSE IF call.name = "generate_product_image" /\ url # None
                              THEN Return(t1, r.store, "image", r.res.message, url)
                              ELSE Continue(t2, r.store)} :
                    store' = out.store /\ turn' = out.turn
    /\ UNCHANGED <<nextUuid, nTurns, others>>

(* One iteration whose chat() returns text that is not blank.              *)
IterText(content) ==
    /\ turn.pc = "loop"
    /\ ~IsBlank(Text(content))
    /\ LET out == Return([turn EXCEPT !.nTool = @ + 1], store, "text", Text(content), None)
       IN  store' = out.store /\ turn' = out.turn
    /\ UNCHANGED <<nextUuid, db, last, nTurns, others>>

(* An iteration with blank text, were a finalization that gave nothing     *)
(* tried a second time.                                                    *)
IterBlankRetried(content, final) ==
    /\ turn.pc = "loop"
    /\ IsBlank(Text(content))
    /\ LET answered == final.type = "text" /\ ~IsBlank(Text(final.content))
           t1 == [turn EXCEPT !.nTool = @ + 1, !.nFinal = @ + (IF answered THEN 1 ELSE 2)]
           out == IF answered
                  THEN Return(t1, store, "text", Text(final.content), None)
                  ELSE Continue(t1, store)
       IN  store' = out.store /\ turn' = out.turn
    /\ UNCHANGED <<nextUuid, db, last, nTurns, others>>

(* An iteration with blank text, were the text returned as it is.          *)
IterBlankReturned(content, final) ==
    /\ turn.pc = "loop"
    /\ IsBlank(Text(content))
    /\ LET out == Return([turn EXCEPT !.nTool = @ + 1], store, "text", Text(content), None)
       IN  store' = out.store /\ turn' = out.turn
    /\ UNCHANGED <<nextUuid, db, last, nTurns, others>>

(* One iteration whose chat() returns blank text: the finalization call    *)
(* without tools answers `final` (text, a tool call, or an exception).     *)
IterBlank(content, final) ==
    /\ turn.pc = "loop"
    /\ IsBlank(Text(content))
    /\ LET t1 == [turn EXCEPT !.nTool = @ + 1, !.nFinal = @ + 1]
           out == IF final.type = "text" /\ ~IsBlank(Text(final.content))
                  THEN Return(t1, store, "text", Text(final.content), None)
                  ELSE Continue(t1, store)
       IN  store' = out.store /\ turn' = out.turn
    /\ UNCHANGED <<nextUuid, db, last, nTurns, others>>

FinalReplies ==
    [type : {"text"}, content : TextReplies]
    \cup [type : {"tool_call", "raise"}, content : {<<>>}]

(* chat() raises in a tool-enabled call: nothing in the loop catches it.   *)
IterRaise ==
    /\ turn.pc = "loop"
    /\ turn' = [turn EXCEPT !.pc = "raised", !.exc = "LLMError", !.nTool = @ + 1]
    /\ UNCHANGED <<store, nextUuid, db, last, nTurns, others>>

Next ==
    \/ CreateSession
    \/ \E session_id \in Created \cup {"x1"}, user_message \in UserMessages :
            StartTurn(session_id, user_message)
    \/ \E call \in LoopCalls, ext \in {"ok", "fail"} : IterToolCall(call, ext)
    \/ \E content \in TextReplies : IterText(content)
    \/ \E content \in TextReplies, final \in FinalReplies : IterBlank(content, final)
    \/ IterRaise

Spec == Init /\ [][Next]_vars

(* Each awaited call of an iteration completes: an iteration that can be   *)
(* taken is eventually taken.                                              *)
Iteration ==
    \/ \E call \in LoopCalls, ext \in {"ok", "fail"} : IterToolCall(call, ext)
    \/ \E content \in TextReplies : IterText(content)
    \/ \E content \in TextReplies, final \in FinalReplies : IterBlank(content, final)
    \/ IterRaise

FairSpec == Spec /\ WF_vars(Iteration)

(***************************************************************************)
(* The tool registry on its own: ToolRegistry.execute called for a session *)
(* with any tool call, as the loop does once per tool-call reply, without  *)
(* the conversation around it.  The call is awaited: its result is taken   *)
(* before the next call is made.                                           *)
(***************************************************************************)
Executed(session_id, call, ext) ==
    /\ turn.pc = "idle"
    /\ last = NoCall
    /\ \E r \in {execute(call.name, call.args, session_id, store, db, ext)} :
          /\ WithinBounds(r.db)
          /\ last' = [name |-> call.name, args |-> call.args, session_id |-> session_id,
                      ext |-> ext, res |-> r.res, exc |-> r.exc, touched |-> r.touched,
                      raised |-> r.raised]
          /\ db' = r.db
          /\ store' = r.store
    /\ UNCHANGED <<nextUuid, turn, nTurns, others>>

ExecuteTool(session_id, call, ext) ==
    /\ ext = "ok" \/ UsesExt(call)
    /\ Executed(session_id, call, ext)

TakeResult ==
    /\ turn.pc = "idle"
    /\ last # NoCall
    /\ last' = NoCall
    /\ UNCHANGED <<store, nextUuid, db, turn, nTurns, others>>

ToolNext ==
    \/ CreateSession
    \/ TakeResult
    \/ \E session_id \in Created \cup {"x1"}, call \in ToolCalls, ext \in {"ok", "fail"} :
            ExecuteTool(session_id, call, ext)

ToolSpec == Init /\ [][ToolNext]_vars

(***************************************************************************)
(* Orders with a database that can fail: the calls that lead to an order   *)
(* and show it, and create_order with the insert of its items failing.     *)
(***************************************************************************)
OrderCalls ==
    {call \in ToolCalls :
        call.name \in {"register_user", "add_inventory", "create_order", "get_customer_orders"}}

ExecuteOrder(session_id, call) ==
    /\ call.name = "create_order"
    /\ Executed(session_id, call, "fail")

OrderNext ==
    \/ CreateSession
    \/ TakeResult
    \/ \E session_id \in Created, call \in OrderCalls : ExecuteTool(session_id, call, "ok")
    \/ \E session_id \in Created, call \in OrderCalls : ExecuteOrder(session_id, call)

OrderSpec == Init /\ [][OrderNext]_vars

(***************************************************************************)
(* Inventory and orders over time: suppliers add lines that are available  *)
(* now or later and expire or not, the status of a line and of an order is *)
(* changed (DatabaseService.update_inventory_status, update_order_status), *)
(* products are searched and ordered, flash sales are suggested.  One      *)
(* session makes the calls: it registers as a supplier and as a customer   *)
(* in turn.                                                                *)
(***************************************************************************)
MaxStock == 2
MaxInactive == 1

StockCalls ==
    [name : {"register_user"},
     args : {[NoArgs EXCEPT !.user_type = "supplier", !.phone = "p1"],
             [NoArgs EXCEPT !.user_type = "customer", !.phone = "p2"]}]
    \cup [name : {"add_inventory"},
          args : {[NoArgs EXCEPT !.product_name = LowTomato, !.quantity_kg = c[1],
                                 !.price_per_unit = c[2], !.available_date = c[3],
                                 !.expiry_date = c[4]] :
                    c \in {<<<<5>>, <<10>>, "D+0", "D+1">>, <<<<3>>, <<8>>, "D+1", "">>,
                           <<<<4>>, <<12>>, "D+0", "D-1">>}}]
    \cup [name : {"create_order"},
          args : {[NoArgs EXCEPT !.items = <<Item(LowTomato, <<2>>), Item(Tomato, <<9>>)>>,
                                 !.delivery_date = "D+1", !.delivery_location = "Bole"]}]
    \cup [name : {"search_products"}, args : {[NoArgs EXCEPT !.query = <<"o">>]}]
    \cup [name : {"suggest_flash_sale"},
          args : {[NoArgs EXCEPT !.days_threshold = <<3>>],
                  [NoArgs EXCEPT !.days_threshold = <<0>>]}]

ExecuteStock(session_id, call) ==
    /\ turn.pc = "idle"
    /\ last = NoCall
    /\ \E r \in {execute(call.name, call.args, session_id, store, db, "ok")} :
          /\ Cardinality(r.db.inventory) <= MaxStock
          /\ Cardinality(r.db.orders) <= MaxOrders
          /\ last' = [name |-> call.name, args |-> call.args, session_id |-> session_id,
                      ext |-> "ok", res |-> r.res, exc |-> r.exc, touched |-> r.touched,
                      raised |-> r.raised]
          /\ db' = r.db
          /\ store' = r.store
    /\ UNCHANGED <<nextUuid, turn, nTurns, others>>

(* DatabaseService.update_inventory_status.                                *)
UpdateInventoryStatus(inventory_id, status) ==
    /\ last = NoCall
    /\ \E i \in db.inventory : i.inventory_id = inventory_id /\ i.status # status
    /\ db' = [db EXCEPT !.inventory =
                    {IF i.inventory_id = inventory_id THEN [i EXCEPT !.status = status] ELSE i :
                        i \in @}]
    /\ Cardinality({i \in db'.inventory : i.status # "active"}) <= MaxInactive
    /\ UNCHANGED <<store, nextUuid, turn, last, nTurns, others>>

(* DatabaseService.update_order_status.                                    *)
UpdateOrderStatus(order_id, status, supplier_id) ==
    /\ last = NoCall
    /\ \E o \in db.orders : o.order_id = order_id /\ o.status # status
    /\ db' = [db EXCEPT !.orders =
                    {IF o.order_id = order_id
                     THEN [o EXCEPT !.status = status, !.supplier_id = supplier_id]
                     ELSE o : o \in @}]
    /\ UNCHANGED <<store, nextUuid, turn, last, nTurns, others>>

StockNext ==
    \/ CreateSession
    \/ TakeResult
    \/ \E session_id \in Created \cap {Uuids[1]}, call \in StockCalls :
            ExecuteStock(session_id, call)
    \/ \E inventory_id \in 1..MaxStock, status \in {"active", "sold_out", "expired"} :
            UpdateInventoryStatus(inventory_id, status)
    \/ \E o \in db.orders, u \in {x \in db.users : x.user_type = "supplier"} :
            UpdateOrderStatus(o.order_id, "confirmed", u.user_id)

StockSpec == Init /\ [][StockNext]_vars

(***************************************************************************)
(* Calls that leave a required argument out.  `required` is what each      *)
(* tool's declaration lists as required; a call of MissingCalls has every  *)
(* required argument of its tool but one, which is absent (it reads as     *)
(* the default of args.get()).                                             *)
(***************************************************************************)
required(name) ==
    CASE name = "parse_date_string" -> {"text"}
      [] name = "register_user" -> {"user_type", "phone"}
      [] name \in {"search_products", "rag_query"} -> {"query"}
      [] name \in {"get_pricing_insights", "generate_product_image"} -> {"product_name"}
      [] name = "create_order" -> {"items", "delivery_date", "delivery_location"}
      [] name = "add_inventory" ->
            {"product_name", "quantity_kg", "price_per_unit", "available_date"}
      [] OTHER -> {}

MissingCalls ==
    LET complete ==
            [NoArgs EXCEPT !.user_type = "supplier", !.phone = "p1",
                           !.product_name = LowTomato, !.quantity_kg = <<5>>,
                           !.price_per_unit = <<10>>, !.available_date = "D+0",
                           !.items = OneTomato, !.delivery_date = "D+1",
                           !.delivery_location = "Bole", !.query = <<"o">>, !.text = WordToday]
    IN  UNION {{[name |-> name,
                 args |-> [a \in DOMAIN NoArgs |->
                              IF a \in required(name) \ {f} THEN complete[a] ELSE NoArgs[a]]] :
                    f \in required(name)} : name \in _handlers}

(* Calls that name a product the way a user may type it: exactly, in       *)
(* another casing, misspelt a little or a lot, inside a longer text, or    *)
(* not at all.                                                             *)
MisspeltCalls ==
    LET typed == {Tomato, LowTomato, Tometo, Durian, <<" ">> \o Tometo,
                  <<"t", "m", "t">>, LowTomato \o <<" ", "x">>}
    IN  [name : {"get_pricing_insights", "generate_product_image"},
         args : {[NoArgs EXCEPT !.product_name = n] : n \in typed}]
        \cup [name : {"generate_product_image"},
              args : {[NoArgs EXCEPT !.query = n] : n \in typed}]
        \cup [name : {"add_inventory"},
              args : {[NoArgs EXCEPT !.product_name = n, !.quantity_kg = <<5>>,
                                     !.price_per_unit = <<10>>, !.available_date = "D+0"] :
                        n \in typed}]

(* The calls with an argument missing or a product misspelt, and the       *)
(* registrations that make the caller a supplier or a customer.            *)
ArgsNext ==
    \/ CreateSession
    \/ TakeResult
    \/ \E session_id \in Created \cup {"x1"}, ext \in {"ok", "fail"},
          call \in MissingCalls \cup MisspeltCalls
                    \cup [name : {"register_user"},
                          args : {[NoArgs EXCEPT !.user_type = c[1], !.phone = c[2]] :
                                    c \in {<<"supplier", "p1">>, <<"customer", "p1">>,
                                           <<"customer", "p2">>}}] :
            ExecuteTool(session_id, call, ext)

ArgsSpec == Init /\ [][ArgsNext]_vars

(***************************************************************************)
(* The session store under concurrent callers.  A method of                *)
(* SessionManager is called (Begin), sends its commands one at a time      *)
(* (Get, Expire, Setex) and returns to its caller (Resume).  Message is    *)
(* the Socket.IO `message` handler or a /ws connection receiving a text:   *)
(* each starts process_message in a task of its own, with nothing that     *)
(* makes it wait for a message of the same session still in progress.      *)
(* Between the store accesses of a message the model's replies and tool    *)
(* calls take place as in Spec.                                            *)
(***************************************************************************)
Letters == <<"a", "b", "c", "d", "e", "f", "g", "h">>

NextEntry(session_id, role) ==
    [role |-> role, content |-> Text(<<Letters[log.count[session_id] + 1]>>)]

Updates ==
    {[context |-> [NoContext EXCEPT !.keys = {"current_flow"}, !.current_flow = "ordering"]],
     [user_id |-> UserIds[1], user_type |-> "customer", registered |-> TRUE]}

StoreCalls ==
    [op : {"get_session"}, updates : {NoUpdates}, n_messages : {0}]
    \cup [op : {"get_conversation_context"}, updates : {NoUpdates}, n_messages : 0..2]
    \cup [op : {"update_session"}, updates : Updates, n_messages : {0}]
    \cup [op : {"add_message"}, updates : {NoUpdates}, n_messages : {0}]

Overlaps(t, session_id) ==
    \E u \in TaskIds \ {t} : IsWriter(tasks[u]) /\ tasks[u].session_id = session_id

(* SessionManager.create_session: its one command.                        *)
Create(sessions) ==
    /\ nextUuid < sessions
    /\ \E r \in {create_session(store, nextUuid)} :
          /\ store' = redis_setex(store, r.id, r.store[r.id])
          /\ expiry' = [expiry EXCEPT ![r.id] = ttl]
          /\ idle' = [idle EXCEPT ![r.id] = 0]
    /\ nextUuid' = nextUuid + 1
    /\ UNCHANGED <<db, turn, last, nTurns, tasks, log, machine, lookup>>

Begin(t, session_id, c) ==
    /\ tasks[t].pc = "none"
    /\ c.op \in Writers => log.begun < MaxAppends
    /\ tasks' = [tasks EXCEPT ![t] =
                    [NoTask EXCEPT !.op = c.op, !.session_id = session_id, !.pc = "get",
                                   !.updates = c.updates, !.n_messages = c.n_messages,
                                   !.entry = IF c.op = "add_message"
                                             THEN NextEntry(session_id, "user")
                                             ELSE NoEntry]]
    /\ log' = [log EXCEPT !.begun = IF c.op \in Writers THEN @ + 1 ELSE @,
                          !.count[session_id] = IF c.op = "add_message" THEN @ + 1 ELSE @,
                          !.overlapped[session_id] =
                               @ \/ (c.op \in Writers /\ Overlaps(t, session_id))]
    /\ UNCHANGED <<store, nextUuid, db, turn, last, nTurns, expiry, idle, machine, lookup>>

Message(t, session_id) ==
    /\ tasks[t].pc = "none"
    /\ tasks' = [tasks EXCEPT ![t] =
                    [NoTask EXCEPT !.op = "get_session", !.session_id = session_id,
                                   !.pc = "get", !.phase = "load"]]
    /\ log' = [log EXCEPT !.overlapped[session_id] = @ \/ Overlaps(t, session_id)]
    /\ UNCHANGED <<store, nextUuid, db, turn, last, nTurns, expiry, idle, machine, lookup>>

AfterRead(task) == IF task.op \in Writers THEN "setex" ELSE "return"

(* redis.get of get_session; a missing key returns None at once.           *)
Get(t) ==
    /\ tasks[t].pc = "get"
    /\ \E raw \in {redis_get(store, tasks[t].session_id)} :
          /\ tasks' = [tasks EXCEPT ![t].data = raw,
                                    ![t].pc = IF raw.present THEN "expire"
                                              ELSE AfterRead(tasks[t]),
                                    ![t].ret = get_conversation_context(raw, tasks[t].n_messages)]
          /\ idle' = IF raw.present THEN [idle EXCEPT ![tasks[t].session_id] = 0] ELSE idle
    /\ UNCHANGED <<store, nextUuid, db, turn, last, nTurns, expiry, log, machine, lookup>>

(* redis.expire of get_session.                                            *)
Expire(t) ==
    /\ tasks[t].pc = "expire"
    /\ expiry' = redis_expire(expiry, store, tasks[t].session_id)
    /\ idle' = IF store[tasks[t].session_id].present
               THEN [idle EXCEPT ![tasks[t].session_id] = 0]
               ELSE idle
    /\ tasks' = [tasks EXCEPT ![t].pc = AfterRead(tasks[t])]
    /\ UNCHANGED <<store, nextUuid, db, turn, last, nTurns, log, machine, lookup>>

(* redis.setex of update_session and add_message.                          *)
Setex(t) ==
    /\ tasks[t].pc = "setex"
    /\ \E id \in {tasks[t].session_id} :
          /\ store' = redis_setex(store, id, Written(tasks[t]))
          /\ expiry' = [expiry EXCEPT ![id] = ttl]
          /\ idle' = [idle EXCEPT ![id] = 0]
          /\ log' = [log EXCEPT !.written[id] = TRUE,
                                !.appended[id] = IF tasks[t].op = "add_message"
                                                 THEN Append(@, tasks[t].entry)
                                                 ELSE @]
    /\ tasks' = [tasks EXCEPT ![t].pc = "return"]
    /\ UNCHANGED <<nextUuid, db, turn, last, nTurns, machine, lookup>>

(* The call returns to its caller.  process_message goes on: a session     *)
(* that was not found makes it create one and read the id it was given     *)
(* again; the user message is appended; the session read is then used      *)
(* (and is None if it was not found); the model is awaited.                *)
Resume(t) ==
    /\ tasks[t].pc = "return"
    /\ LET task == tasks[t]
           Then(op, phase) == [task EXCEPT !.op = op, !.phase = phase, !.pc = "get"]
       IN  CASE task.phase = None ->
                    /\ tasks' = [tasks EXCEPT ![t] = NoTask]
                    /\ UNCHANGED <<store, nextUuid, expiry, idle, log>>
             [] task.phase = "load" /\ ~task.data.present ->
                    /\ nextUuid < MaxSessions + 1
                    /\ \E r \in {create_session(store, nextUuid)} :
                          /\ store' = redis_setex(store, r.id, r.store[r.id])
                          /\ expiry' = [expiry EXCEPT ![r.id] = ttl]
                          /\ idle' = [idle EXCEPT ![r.id] = 0]
                    /\ nextUuid' = nextUuid + 1
                    /\ tasks' = [tasks EXCEPT ![t] = Then("get_session", "reload")]
                    /\ UNCHANGED log
             [] task.phase \in {"load", "reload"} /\ (task.phase = "reload" \/ task.data.present) ->
                    /\ log.begun < MaxAppends
                    /\ tasks' = [tasks EXCEPT ![t] =
                                    [Then("add_message", "user") EXCEPT
                                        !.entry = NextEntry(task.session_id, "user"),
                                        !.loaded = task.data.present]]
                    /\ log' = [log EXCEPT !.begun = @ + 1, !.count[task.session_id] = @ + 1]
                    /\ UNCHANGED <<store, nextUuid, expiry, idle>>
             [] task.phase = "user" /\ ~task.loaded ->
                    /\ tasks' = [tasks EXCEPT ![t] = [NoTask EXCEPT !.exc = "AttributeError"]]
                    /\ UNCHANGED <<store, nextUuid, expiry, idle, log>>
             [] task.phase = "user" /\ task.loaded ->
                    /\ tasks' = [tasks EXCEPT ![t].pc = "llm", ![t].phase = "llm"]
                    /\ UNCHANGED <<store, nextUuid, expiry, idle, log>>
             [] task.phase = "assistant" ->
                    /\ tasks' = [tasks EXCEPT ![t] = NoTask]
                    /\ UNCHANGED <<store, nextUuid, expiry, idle, log>>
    /\ UNCHANGED <<db, turn, last, nTurns, machine, lookup>>

(* _llm_direct_flow has its reply and appends it.                          *)
Reply(t) ==
    /\ tasks[t].pc = "llm"
    /\ log.begun < MaxAppends
    /\ tasks' = [tasks EXCEPT ![t] =
                    [tasks[t] EXCEPT !.op = "add_message", !.phase = "assistant", !.pc = "get",
                                     !.entry = NextEntry(tasks[t].session_id, "assistant")]]
    /\ log' = [log EXCEPT !.begun = @ + 1, !.count[tasks[t].session_id] = @ + 1]
    /\ UNCHANGED <<store, nextUuid, db, turn, last, nTurns, expiry, idle, machine, lookup>>

(* One caller: each call of a method is awaited before the next is made.   *)
StoreNext ==
    \/ Create(MaxSessions)
    \/ \E session_id \in Created \cup {"x1"}, c \in StoreCalls : Begin(1, session_id, c)
    \/ Get(1)
    \/ Expire(1)
    \/ Setex(1)
    \/ Resume(1)

StoreSpec == Init /\ [][StoreNext]_vars

(* Writes from several callers at once, the callers of one session taking *)
(* turns: a write is begun for a session that has no writer in flight      *)
(* (messages that do not take turns are TurnSpec's).  Tasks take the       *)
(* lowest free slot: which slot a task has makes no difference.            *)
FreeSlot(t) == tasks[t].pc = "none" /\ \A u \in 1..(t - 1) : tasks[u].pc # "none"

WriterCalls == {c \in StoreCalls : c.op \in Writers /\ "context" \notin DOMAIN c.updates}

ConcurrentNext ==
    \/ Create(MaxSessions + 1)
    \/ \E t \in TaskIds, session_id \in Created, c \in WriterCalls :
            FreeSlot(t) /\ ~Overlaps(t, session_id) /\ Begin(t, session_id, c)
    \/ \E t \in TaskIds : Get(t)
    \/ \E t \in TaskIds : Expire(t)
    \/ \E t \in TaskIds : Setex(t)
    \/ \E t \in TaskIds : Resume(t)

ConcurrentSpec == Init /\ [][ConcurrentNext]_vars

(* Messages from several connections at once.                              *)
TurnNext ==
    \/ Create(MaxSessions)
    \/ \E t \in TaskIds, session_id \in Created \cup {"x1"} :
            FreeSlot(t) /\ Message(t, session_id)
    \/ \E t \in TaskIds : Get(t)
    \/ \E t \in TaskIds : Expire(t)
    \/ \E t \in TaskIds : Setex(t)
    \/ \E t \in TaskIds : Resume(t)
    \/ \E t \in TaskIds : Reply(t)

TurnSpec == Init /\ [][TurnNext]_vars

(* A unit of time passes: every key has one less to live, and a key with   *)
(* none left is gone.                                                      *)
Tick ==
    /\ \E s \in SessionIds : store[s].present
    /\ expiry' = [s \in SessionIds |-> IF expiry[s] > 0 THEN expiry[s] - 1 ELSE 0]
    /\ store' = [s \in SessionIds |->
                    IF store[s].present /\ expiry[s] <= 1 THEN Absent ELSE store[s]]
    /\ idle' = [s \in SessionIds |->
                    IF store[s].present /\ idle[s] < ttl THEN idle[s] + 1 ELSE idle[s]]
    /\ UNCHANGED <<nextUuid, db, turn, last, nTurns, tasks, log, machine, lookup>>

ExpiryCalls == {c \in StoreCalls : c.op \in {"get_session", "add_message"}}

ExpiryNext ==
    \/ Create(MaxSessions)
    \/ \E session_id \in Created, c \in ExpiryCalls : Begin(1, session_id, c)
    \/ Get(1)
    \/ Expire(1)
    \/ Setex(1)
    \/ Resume(1)
    \/ Tick

ExpirySpec == Init /\ [][ExpiryNext]_vars

(***************************************************************************)
(* The flow state machine on its own: any sequence of can_transition and   *)
(* transition calls, with the names of States and with strings that name   *)
(* no state.                                                               *)
(***************************************************************************)
Targets == States \cup {"checkout", ""}

CanTransition(to_state) ==
    /\ machine' = [machine EXCEPT !.op = "can_transition", !.to_state = to_state,
                                  !.returned = can_transition(machine.state, to_state),
                                  !.error = NoError]
    /\ UNCHANGED <<store, nextUuid, db, turn, last, nTurns, expiry, idle, tasks, log, lookup>>

Transition(to_state) ==
    /\ \E r \in {transition(machine.state, to_state)} :
          machine' = [machine EXCEPT !.op = "transition", !.to_state = to_state,
                                     !.returned = FALSE, !.state = r.state,
                                     !.error = r.error]
    /\ UNCHANGED <<store, nextUuid, db, turn, last, nTurns, expiry, idle, tasks, log, lookup>>

MachineNext ==
    \/ \E to_state \in Targets : CanTransition(to_state)
    \/ \E to_state \in Targets : Transition(to_state)

MachineSpec == Init /\ [][MachineNext]_vars

(***************************************************************************)
(* The entity resolver on its own: get_product_by_name and                 *)
(* fuzzy_get_product_by_name are called with a name as a user may type it  *)
(* (a catalog name in some casing, with a letter dropped, replaced or      *)
(* added, padded with a space, or something else) and a threshold in       *)
(* percent (0.8 and 0.65 are the ones the handlers pass).  A lookup reads   *)
(* nothing an earlier lookup left: each is made of the initial state.      *)
(***************************************************************************)
Typed(n) ==
    {n, Append(n, "s"), <<" ">> \o n}
    \cup {SubSeq(n, 1, i - 1) \o SubSeq(n, i + 1, Len(n)) : i \in 1..Len(n)}
    \cup {[n EXCEPT ![i] = "e"] : i \in 1..Len(n)}

Names ==
    UNION {Typed(n) : n \in {Tomato, Lower(Tomato), <<"T", "O", "m", "a", "T", "O">>,
                              Onion, Lower(Onion)}}
    \cup {<<>>, <<" ">>, <<"x">>, <<"x", "y", "z">>}

Thresholds == {30, 65, 80, 100}

Lookup(name, threshold) ==
    /\ lookup = NoLookup
    /\ lookup' = [name |-> name, threshold |-> threshold,
                  exact |-> get_product_by_name(name),
                  fuzzy |-> fuzzy_get_product_by_name(name, threshold)]
    /\ UNCHANGED <<store, nextUuid, db, turn, last, nTurns, expiry, idle, tasks, log, machine>>

ResolverNext == \E name \in Names, threshold \in Thresholds : Lookup(name, threshold)

ResolverSpec == Init /\ [][ResolverNext]_vars

(***************************************************************************)
(* Pricing recommendation (DatabaseService).  competitor_pricing and       *)
(* transaction_history are lists of rows; a row's `age` is the number of   *)
(* days between its date and today, so `date >= today - days_back` is      *)
(* `age <= days_back`.  Prices are whole numbers, an average is the        *)
(* fraction num/den and den = 0 stands for None (AVG over no row); the     *)
(* recommendation is kept in hundredths.                                   *)
(***************************************************************************)
MaxObs == 2
MaxTx == 1

RECURSIVE SumPrices(_)
SumPrices(rows) == IF rows = <<>> THEN 0 ELSE Head(rows).price + SumPrices(Tail(rows))

Avg(rows) == [num |-> SumPrices(rows), den |-> Len(rows)]

get_average_competitor_price(obs, product_id, market_type, days_back) ==
    Avg(SelectSeq(obs, LAMBDA r : /\ r.product_id = product_id
                                  /\ r.source_market_type = market_type
                                  /\ r.age <= days_back))

get_average_competitor_price_anytime(obs, product_id, market_type) ==
    Avg(SelectSeq(obs, LAMBDA r : /\ r.product_id = product_id
                                  /\ r.source_market_type = market_type))

get_historical_transaction_prices(tx, product_id, days_back) ==
    Avg(SelectSeq(tx, LAMBDA r : r.product_id = product_id /\ r.age <= days_back))

RECURSIVE _avg_with_fallback(_, _, _, _)
_avg_with_fallback(obs, product_id, market, windows) ==
    IF windows = <<>> THEN get_average_competitor_price_anytime(obs, product_id, market)
    ELSE IF get_average_competitor_price(obs, product_id, market, Head(windows)).den # 0
    THEN get_average_competitor_price(obs, product_id, market, Head(windows))
    ELSE _avg_with_fallback(obs, product_id, market, Tail(windows))

(* round(base * 1.10, 2), in hundredths: the nearest whole number to       *)
(* 110 * num / den.                                                        *)
Marked(base) == (2 * 110 * base.num + base.den) \div (2 * base.den)

(* calculate_pricing_recommendation, were the markup left out.             *)
calculate_pricing_recommendation_at_cost(obs, tx, product_id) ==
    LET farm == _avg_with_fallback(obs, product_id, "Farm", <<30, 90, 180, 365>>)
        historical == get_historical_transaction_prices(tx, product_id, 60)
        base == IF farm.den # 0 THEN farm ELSE historical
    IN  [product_id |-> product_id,
         recommended |-> IF base.den # 0 THEN (100 * base.num) \div base.den ELSE 0,
         farm_avg |-> farm,
         supermarket_avg |->
            _avg_with_fallback(obs, product_id, "Supermarket", <<30, 90, 180, 365>>),
         distribution_avg |->
            _avg_with_fallback(obs, product_id, "Distribution Center", <<30, 90, 180, 365>>),
         historical_avg |-> historical]

calculate_pricing_recommendation(obs, tx, product_id) ==
    LET farm == _avg_with_fallback(obs, product_id, "Farm", <<30, 90, 180, 365>>)
        historical == get_historical_transaction_prices(tx, product_id, 60)
        base == IF farm.den # 0 THEN farm ELSE historical
    IN  [product_id |-> product_id,
         recommended |-> IF base.den # 0 /\ base.num # 0 THEN Marked(base) ELSE 0,
         farm_avg |-> farm,
         supermarket_avg |->
            _avg_with_fallback(obs, product_id, "Supermarket", <<30, 90, 180, 365>>),
         distribution_avg |->
            _avg_with_fallback(obs, product_id, "Distribution Center", <<30, 90, 180, 365>>),
         historical_avg |-> historical]

SeqsUpTo(S, n) == UNION {[1..k -> S] : k \in 0..n}

(* The tables a recommendation is computed from: up to MaxObs competitor   *)
(* observations (one age in each window and one older than a year, a free  *)
(* and a priced product, two of the three tiers) and up to MaxTx           *)
(* transactions (one in the last 60 days, one older).                      *)
Observations ==
    SeqsUpTo([product_id : {1}, age : {10, 45, 100, 200, 400}, price : {0, 25},
              source_market_type : {"Farm", "Supermarket"}], MaxObs)

Transactions == SeqsUpTo([product_id : {1}, age : {10, 100}, price : {0, 25}], MaxTx)

(* One recommendation is asked of each pair of tables: the query reads     *)
(* nothing an earlier query left.                                          *)
PricingNext ==
    /\ lookup = NoLookup
    /\ \E obs \in Observations, tx \in Transactions :
          lookup' = [obs |-> obs, tx |-> tx, rec |-> calculate_pricing_recommendation(obs, tx, 1)]
    /\ UNCHANGED <<store, nextUuid, db, turn, last, nTurns, expiry, idle, tasks, log, machine>>

PricingSpec == Init /\ [][PricingNext]_vars

(***************************************************************************)
(* Properties.                                                             *)
(***************************************************************************)
Looping == turn.pc = "loop"

Returned == turn.pc = "done"

History == store[turn.session_id].conversation_history

UserTurn == [role |-> "user", content |-> Text(turn.user_message)]

AssistantTurn == [role |-> "assistant", content |-> turn.result.content]

(* A step in which ToolRegistry.execute ran: `last` in the next state is   *)
(* that call, the unprimed variables are the state it was made in.         *)
ToolStep ==
    \/ turn.pc = "idle" /\ turn'.pc = "idle" /\ last = NoCall /\ last' # NoCall
    \/ turn.pc = "loop" /\ turn'.nExec = turn.nExec + 1

Caller == store[last'.session_id]

(* C1: for a stored session and a model that answers every call (with a   *)
(* tool call, text or blank text), the loop makes at most max_calls = 3    *)
(* tool-enabled calls, one per iteration, a call that returns returns a    *)
(* result of type text or image, the only other way out of the loop is an  *)
(* exception of the model's own call, and the loop always ends.            *)
C1_LoopBoundedAndEnds ==
    /\ [](/\ turn.nTool <= max_calls
          /\ Looping => turn.nTool = turn.iter /\ turn.iter < max_calls
          /\ Returned => turn.result.type \in {"text", "image"}
          /\ (turn.pc = "raised" /\ turn.nTool > 0) => turn.exc = "LLMError")
    /\ (Looping ~> ~Looping)

(* The model answered three calls with tool calls and the loop returned.   *)
C1_Witness == Returned /\ turn.nExec = max_calls /\ turn.nTool = max_calls

(* C2: while a message is processed the history is the history before it   *)
(* plus the one user turn; when the call returns it is the history before  *)
(* it plus that user turn plus one assistant turn whose content is the     *)
(* content returned (oldest entries dropped beyond max_history).           *)
C2_OneUserOneAssistantTurn ==
    /\ Looping => History = Trim(Append(turn.hist0, UserTurn))
    /\ Returned => History = Trim(turn.hist0 \o <<UserTurn, AssistantTurn>>)

(* A return by the fallback: the last tool message after three tool calls, *)
(* in a session that already had a full history.                           *)
C2_Witness ==
    /\ Returned
    /\ turn.iter = max_calls
    /\ ~IsFalsy(turn.last_tool_msg)
    /\ turn.result.content = turn.last_tool_msg
    /\ Len(turn.hist0) >= 2

(* C3 as stated: a message for an id with no stored session leaves a       *)
(* session under that id with the initial fields, and the call does not    *)
(* raise.                                                                  *)
C3_MissingSessionCreated ==
    (turn.pc # "idle" /\ turn.missing) =>
        /\ turn.pc # "raised"
        /\ store[turn.session_id].keys = InitialKeys
        /\ ~store[turn.session_id].registered
        /\ store[turn.session_id].context.current_flow = "idle"

(* C4 as stated: when the model's call raises, the message still ends with *)
(* a returned text result.                                                 *)
C4_LlmFailureAnswered ==
    turn.exc = "LLMError" => Returned /\ turn.result.type = "text"

(* C5: execute never raises; what it returns has the fields success, data  *)
(* and message; an unregistered name gives a failed result naming the tool *)
(* as unknown; an exception of the handler gives a failed result carrying  *)
(* the exception.                                                          *)
C5_ExecuteTotal ==
    last.name # None =>
        /\ ~last.raised
        /\ DOMAIN last.res = {"success", "data", "message"}
        /\ last.name \notin _handlers =>
                /\ ~last.res.success
                /\ last.res.message = Msg("Unknown tool", last.name, <<>>)
        /\ last.exc # "" =>
                /\ last.name \in _handlers
                /\ ~last.res.success
                /\ last.res.message = Msg("failed", last.name, <<last.exc>>)

(* create_order was called with a date that does not parse: the handler    *)
(* raised ValueError, execute returned a failed result.                    *)
C5_Witness ==
    last.name = "create_order" /\ last.exc = "ValueError" /\ ~last.res.success

SupplierTools ==
    {"add_inventory", "check_supplier_stock", "get_supplier_schedule", "suggest_flash_sale"}

(* C6: a call of a supplier tool made when the stored session is absent,   *)
(* not registered or not of type supplier fails with the same message      *)
(* whatever the arguments, before any access to the database, and leaves   *)
(* the database as it was.                                                 *)
C6_SupplierToolsGuarded ==
    [][(/\ ToolStep
        /\ last'.name \in SupplierTools
        /\ ~(Caller.present /\ Caller.registered /\ Caller.user_type = "supplier"))
       => /\ ~last'.res.success
          /\ last'.res.message = Msg("User must be a registered supplier", "", <<>>)
          /\ ~last'.touched
          /\ last'.exc = ""
          /\ db' = db]_vars

(* A registered customer called add_inventory with arguments that would    *)
(* make the handler raise had it gone on to read them.                     *)
C6_Witness ==
    /\ last.name = "add_inventory"
    /\ last.args.quantity_kg = <<>>
    /\ store[last.session_id].registered
    /\ store[last.session_id].user_type = "customer"
    /\ ~last.res.success

OwnListings ==
    {"Your Current Inventory", "Your Delivery Schedule", "Expiring Inventory Alert",
     "Your Orders"}

(* C7: an inventory line comes from add_inventory and carries the calling  *)
(* session's user_id as supplier_id; an order comes from create_order and  *)
(* carries the calling session's user_id as customer_id; a listing a tool  *)
(* returns is the one of the calling session's user_id.                    *)
C7_OwnIdentityOnly ==
    [][ToolStep
       => /\ \A i \in db'.inventory \ db.inventory :
                /\ last'.name = "add_inventory"
                /\ Caller.user_id # None
                /\ i.supplier_id = Caller.user_id
          /\ \A o \in db'.orders \ db.orders :
                /\ last'.name = "create_order"
                /\ Caller.user_id # None
                /\ o.customer_id = Caller.user_id
          /\ last'.res.message.k \in OwnListings =>
                last'.res.message.name = Caller.user_id]_vars

(* With two users registered, one of them a supplier with inventory, the   *)
(* other placed an order: it is recorded under the other's own user_id.    *)
C7_Witness ==
    /\ last.name = "create_order"
    /\ last.res.success
    /\ \E o \in db.orders, i \in db.inventory :
            /\ o.customer_id = store[last.session_id].user_id
            /\ i.supplier_id # o.customer_id

(* C8: create_order called when the stored session is absent or not        *)
(* registered fails and adds no order and no order item.                   *)
C8_UnregisteredCannotOrder ==
    [][(/\ ToolStep
        /\ last'.name = "create_order"
        /\ ~(Caller.present /\ Caller.registered))
       => /\ ~last'.res.success
          /\ db'.orders = db.orders
          /\ db'.order_items = db.order_items]_vars

(* create_order was called for an id with no stored session, with          *)
(* arguments and inventory with which a registered caller's order is       *)
(* placed.                                                                 *)
C8_Witness ==
    /\ last.name = "create_order"
    /\ ~store[last.session_id].present
    /\ last.args.items = OneTomato
    /\ last.args.delivery_date = "D+1"
    /\ last.args.delivery_location # ""
    /\ get_available_inventory(db, 1) # {}
    /\ ~last.res.success

(* C9: create_order with a delivery date before today fails and leaves the *)
(* database as it was, and when the caller is registered and items and     *)
(* location are given the message is the one saying the date is in the     *)
(* past; a delivery date of today never gets that message; an order that   *)
(* is created carries the delivery date that was supplied.                 *)
C9_PastDateRejected ==
    [][(/\ ToolStep
        /\ last'.name = "create_order"
        /\ last'.args.delivery_date \in IsoStrings)
       => /\ fromisoformat(last'.args.delivery_date) < Today =>
                /\ ~last'.res.success
                /\ db' = db
                /\ (/\ Caller.present /\ Caller.registered /\ Caller.user_id # None
                    /\ last'.args.items # <<>> /\ last'.args.delivery_location # "")
                   => last'.res.message =
                        Msg("Delivery date is in the past", last'.args.delivery_date, <<>>)
          /\ fromisoformat(last'.args.delivery_date) = Today =>
                last'.res.message.k # "Delivery date is in the past"
          /\ \A o \in db'.orders \ db.orders :
                o.delivery_date = fromisoformat(last'.args.delivery_date)]_vars

(* A registered caller ordered for yesterday an item that has inventory.   *)
C9_Witness ==
    /\ last.name = "create_order"
    /\ last.args.delivery_date = "D-1"
    /\ last.args.items = OneTomato
    /\ get_available_inventory(db, 1) # {}
    /\ last.res.message.k = "Delivery date is in the past"

ItemFails(d, it) ==
    \/ get_product_by_name(it.product_name) = NoProduct
    \/ get_available_inventory(d, get_product_by_name(it.product_name).product_id) = {}

(* C10: create_order with an item whose product does not resolve or has no *)
(* eligible inventory fails and leaves the database as it was, wherever    *)
(* the item stands in the list.                                            *)
C10_AnyBadItemFailsOrder ==
    [][(/\ ToolStep
        /\ last'.name = "create_order"
        /\ \E k \in 1..Len(last'.args.items) : ItemFails(db, last'.args.items[k]))
       => /\ ~last'.res.success
          /\ db' = db]_vars

(* The first item resolved and had inventory, the second did not resolve.  *)
C10_Witness ==
    /\ last.name = "create_order"
    /\ Len(last.args.items) = 2
    /\ ~ItemFails(db, last.args.items[1])
    /\ ItemFails(db, last.args.items[2])
    /\ last.res.message.k = "Unknown product"

(* C11 as stated: create_order stores the order row and its items         *)
(* together or not at all, also when a step between the two fails: no      *)
(* order is ever stored without an item.                                   *)
C11_OrderAndItemsAtomic ==
    \A o \in db.orders : \E i \in db.order_items : i.order_id = o.order_id

(* A process_message in flight, and whether it has read or written the     *)
(* session store yet.                                                      *)
InTurn(task) == task.pc # "none" /\ task.phase # None

Accessed(task) == InTurn(task) /\ ~(task.phase = "load" /\ task.pc = "get")

(* C12 as stated: of two messages in flight for one session id, the second *)
(* has made no read or write of the session store while the first has not  *)
(* completed.                                                              *)
C12_TurnsDoNotInterleave ==
    \A t, u \in TaskIds :
        (t # u /\ tasks[t].session_id = tasks[u].session_id)
            => ~(Accessed(tasks[t]) /\ Accessed(tasks[u]))

(* The n most recent entries of a sequence, in their order.                *)
MostRecent(seq, n) == [i \in 1..(IF Len(seq) < n THEN Len(seq) ELSE n) |->
                          seq[i + (IF Len(seq) < n THEN 0 ELSE Len(seq) - n)]]

(* The step is the setex of task t.                                        *)
Wrote(t) == tasks[t].pc = "setex" /\ tasks'[t].pc = "return"

(* C13: with writes to different sessions interleaved command by command   *)
(* and never two writers in flight for one session, the write of           *)
(* add_message puts its entry at the end of the stored history and keeps   *)
(* what was stored before it (but for the entries trimmed off the front),  *)
(* the write of update_session keeps the stored history, the stored        *)
(* history is the most recent of all that was appended, and a step changes *)
(* no record but the one of the session the writing call was made for (or  *)
(* the one create_session adds).                                           *)
C13_NoLostAppendNoCrossWrite ==
    [][/\ \A t \in TaskIds :
           (Wrote(t) /\ ~log.overlapped[tasks[t].session_id]) =>
               store'[tasks[t].session_id].conversation_history =
                   IF tasks[t].op = "add_message"
                   THEN MostRecent(Append(store[tasks[t].session_id].conversation_history,
                                          tasks[t].entry), max_history)
                   ELSE store[tasks[t].session_id].conversation_history
       /\ \A s \in SessionIds :
           ~log'.overlapped[s] =>
               store'[s].conversation_history = MostRecent(log'.appended[s], max_history)
       /\ \A s \in SessionIds :
           store'[s] # store[s] =>
               \/ \E t \in TaskIds : Wrote(t) /\ tasks[t].session_id = s
               \/ ~store[s].present /\ s = Uuids[nextUuid + 1] /\ nextUuid' = nextUuid + 1
       ]_vars

(* Two sessions, a writer in flight for each and none overlapping: one has *)
(* written its entry while the other, which read before that, has yet to   *)
(* write; the first session already holds an earlier entry.                *)
C13_Witness ==
    /\ tasks[1].op = "add_message" /\ tasks[1].pc = "return"
    /\ tasks[2].op \in Writers /\ tasks[2].pc = "setex"
    /\ tasks[1].session_id # tasks[2].session_id
    /\ ~log.overlapped[tasks[1].session_id] /\ ~log.overlapped[tasks[2].session_id]
    /\ Len(store[tasks[1].session_id].conversation_history) >= 2
    /\ store[tasks[1].session_id].conversation_history[
            Len(store[tasks[1].session_id].conversation_history)] = tasks[1].entry

(* A call of one caller has returned.                                      *)
Returns(op) == tasks[1].pc = "return" /\ tasks[1].op = op

(* C14 as stated: whatever was appended to a session, its stored history   *)
(* is the most recent max_history entries appended, in the order they were *)
(* appended, and get_conversation_context(n) returns the last n entries of *)
(* the history it read.                                                    *)
C14_HistoryFifoAndContext ==
    /\ \A s \in SessionIds :
            /\ Len(store[s].conversation_history) <= max_history
            /\ store[s].conversation_history = MostRecent(log.appended[s], max_history)
    /\ Returns("get_conversation_context") =>
            tasks[1].ret = MostRecent(tasks[1].data.conversation_history, tasks[1].n_messages)

(* C15 as stated: a created session whose last successful read or write    *)
(* was less than a full ttl ago is still stored (each of them gave it the  *)
(* full ttl again), and one that was not read or written for a full ttl is *)
(* absent.                                                                 *)
C15_SlidingExpiry ==
    \A s \in Created :
        /\ idle[s] < ttl => store[s].present
        /\ idle[s] >= ttl => ~store[s].present

(* C16: a get_session for an id create_session returned, with nothing      *)
(* written to that session in between, returns a record with that          *)
(* session_id, registered false, user_type unknown, current_flow idle and  *)
(* an empty history.                                                       *)
C16_GetAfterCreate ==
    (/\ Returns("get_session")
     /\ tasks[1].session_id \in Created
     /\ ~log.written[tasks[1].session_id])
    => /\ tasks[1].data.present
       /\ tasks[1].data.session_id = tasks[1].session_id
       /\ tasks[1].data.registered = FALSE
       /\ tasks[1].data.user_type = "unknown"
       /\ "context" \in tasks[1].data.keys
       /\ "current_flow" \in tasks[1].data.context.keys
       /\ tasks[1].data.context.current_flow = "idle"
       /\ "conversation_history" \in tasks[1].data.keys
       /\ tasks[1].data.conversation_history = <<>>

(* get_session has returned the record of a session created and not yet    *)
(* written to.                                                             *)
C16_Witness ==
    /\ Returns("get_session")
    /\ tasks[1].session_id \in Created
    /\ ~log.written[tasks[1].session_id]
    /\ tasks[1].data.session_id = tasks[1].session_id

(* C17 as stated: get_session, update_session and add_message on an id     *)
(* that no create_session returned do not raise and leave nothing stored   *)
(* under it: a get_session for the id still finds no session.              *)
C17_AbsentStaysAbsent ==
    /\ tasks[1].exc = ""
    /\ \A s \in SessionIds \ Created :
            /\ ~store[s].present
            /\ (Returns("get_session") /\ tasks[1].session_id = s) => ~tasks[1].data.present

(* The top-level fields of a stored session.                               *)
TopLevel == DOMAIN Absent \ {"present", "keys"}

(* C18: the write of update_session gives every top-level field named in   *)
(* the update the value the update has for it, a nested context as a whole *)
(* (the keys the stored context had and the update's has not are gone),    *)
(* and leaves every other top-level field as stored, present or not.       *)
C18_ShallowMerge ==
    [][(Wrote(1) /\ tasks[1].op = "update_session") =>
        \E id \in {tasks[1].session_id}, updates \in {tasks[1].updates} :
            /\ store'[id].present
            /\ store'[id].keys = store[id].keys \cup DOMAIN updates
            /\ \A k \in TopLevel :
                    store'[id][k] = IF k \in DOMAIN updates THEN updates[k] ELSE store[id][k]
       ]_vars

(* A created session, with its full initial context and a message in its   *)
(* history, was updated with a context of the one key current_flow: the    *)
(* stored context is that one-key context, the rest is as it was.          *)
C18_Witness ==
    /\ Returns("update_session")
    /\ tasks[1].session_id \in Created
    /\ tasks[1].data.context = InitialContext
    /\ "context" \in DOMAIN tasks[1].updates
    /\ store[tasks[1].session_id].context.keys = {"current_flow"}
    /\ store[tasks[1].session_id].context.current_flow = "ordering"
    /\ store[tasks[1].session_id].user_type = "unknown"
    /\ Len(store[tasks[1].session_id].conversation_history) = 1

(* C19: transition(target) sets the state to target when target is among   *)
(* the targets the table allows from the current state and raises nothing; *)
(* otherwise it raises a ValueError naming the current state and the       *)
(* target and the state stays; can_transition answers whether the target   *)
(* is allowed and the state stays.                                         *)
C19_TransitionOnlyIfAllowed ==
    [][/\ machine'.op = "transition" =>
            IF machine.state \in States /\ machine'.to_state \in _transitions[machine.state]
            THEN /\ machine'.state = machine'.to_state
                 /\ machine'.error = NoError
            ELSE /\ machine'.state = machine.state
                 /\ machine'.error.exc = "ValueError"
                 /\ machine'.error.from = machine.state
                 /\ machine'.error.to = machine'.to_state
       /\ machine'.op = "can_transition" =>
            /\ machine'.state = machine.state
            /\ machine'.returned =
                    (machine.state \in States /\ machine'.to_state \in _transitions[machine.state])
       ]_vars

(* From querying, a transition to ordering was refused, and one to idle    *)
(* would be allowed.                                                       *)
C19_Witness ==
    /\ machine.op = "transition"
    /\ machine.state = "querying"
    /\ machine.error = [exc |-> "ValueError", from |-> "querying", to |-> "ordering"]
    /\ can_transition(machine.state, "idle")

(* The states some sequence of allowed transitions leads to from a set of  *)
(* states.                                                                 *)
RECURSIVE ReachableFrom(_)
ReachableFrom(S) ==
    LET T == S \cup UNION {{to_state \in States : can_transition(s, to_state)} : s \in S}
    IN  IF T = S THEN S ELSE ReachableFrom(T)

(* C20: the machine is always in one of the seven states; from every state *)
(* but idle the transition to idle is allowed; every state is reached from *)
(* idle by allowed transitions.                                            *)
C20_IdleEntryAndExit ==
    /\ Cardinality(States) = 7
    /\ machine.state \in States
    /\ machine.state # "idle" => can_transition(machine.state, "idle")
    /\ \A s \in States \ {"idle"} : can_transition(s, "idle")
    /\ ReachableFrom({"idle"}) = States

(* The machine went from idle to confirming_inventory, which takes two     *)
(* transitions, and can go back to idle from there.                        *)
C20_Witness ==
    /\ machine.op = "transition"
    /\ machine.error = NoError
    /\ machine.state = "confirming_inventory"
    /\ can_transition(machine.state, "idle")
    /\ ~can_transition("idle", machine.state)

(* C21 as stated: a tool that answered a message with an authorization     *)
(* failure (caller not registered, or not a registered supplier) is not    *)
(* executed again while that message is processed.                         *)
C21_NoRetryAfterAuthorizationFailure ==
    [][(turn.pc = "loop" /\ turn'.nExec = turn.nExec + 1) => last'.name \notin turn.denied]_vars

(* The required arguments a call leaves out, and the arguments a message   *)
(* names (a NOT NULL violation names its column).                          *)
MissingArgs(call) == {f \in required(call.name) : call.args[f] = NoArgs[f]}

FieldsNamed(message) ==
    CASE message.k = "text is required" -> {"text"}
      [] message.k = "phone is required" -> {"phone"}
      [] message.k = "user_type must be 'customer' or 'supplier'" -> {"user_type"}
      [] message.k = "query is required" -> {"query"}
      [] message.k = "product_name is required" -> {"product_name"}
      [] message.k = "items, delivery_date, and delivery_location are required" ->
            {"items", "delivery_date", "delivery_location"}
      [] message.k = "failed" /\ message.text = <<"IntegrityError">> -> {"available_date"}
      [] OTHER -> {}

(* C22 as stated: a call of a tool with a required argument missing, by a  *)
(* caller the tool's caller check lets through, returns (no exception      *)
(* leaves execute) a failed result whose message names a missing argument. *)
C22_MissingArgumentNamed ==
    (/\ last.name \in _handlers
     /\ MissingArgs(last) # {}
     /\ ~IsAuthorizationFailure(last.res))
    => /\ ~last.raised
       /\ ~last.res.success
       /\ FieldsNamed(last.res.message) \cap MissingArgs(last) # {}

(* C23: an add_inventory call with generate_image set whose image          *)
(* generation fails, made where the same call with a working image service *)
(* succeeds, succeeds too and adds the same one inventory line but for its *)
(* image_url, which is None; the result's image_url is None and its        *)
(* message says that image generation failed.                              *)
C23_ImageFailureKeepsInventory ==
    [][(/\ ToolStep
        /\ last'.name = "add_inventory"
        /\ last'.args.generate_image
        /\ last'.ext = "fail")
       => \E r \in {execute("add_inventory", last'.args, last'.session_id, store, db, "ok")} :
            r.res.success =>
                /\ last'.res.success
                /\ last'.res.data.image_url = None
                /\ last'.res.data.inventory_id = r.res.data.inventory_id
                /\ last'.res.message.name = "Image generation failed."
                /\ Cardinality(db'.inventory \ db.inventory) = 1
                /\ db'.inventory \ db.inventory =
                        {[i EXCEPT !.image_url = None] : i \in r.db.inventory \ db.inventory}
                /\ [db' EXCEPT !.inventory = {}] = [db EXCEPT !.inventory = {}]]_vars

(* A registered supplier added inventory with generate_image set while the *)
(* image service was failing: the line is stored without an image.         *)
C23_Witness ==
    /\ last.name = "add_inventory"
    /\ last.args.generate_image
    /\ last.ext = "fail"
    /\ last.res.success
    /\ last.res.message.name = "Image generation failed."
    /\ \E i \in db.inventory :
            /\ i.inventory_id = last.res.data.inventory_id
            /\ i.image_url = None
            /\ i.supplier_id = store[last.session_id].user_id

(* C24 as stated: an add_inventory call whose expiry_date is earlier than  *)
(* its available_date returns a failed result and adds no inventory line.  *)
C24_ExpiryBeforeAvailableRejected ==
    [][(/\ ToolStep
        /\ last'.name = "add_inventory"
        /\ {last'.args.available_date, last'.args.expiry_date} \subseteq IsoStrings
        /\ fromisoformat(last'.args.expiry_date) < fromisoformat(last'.args.available_date))
       => /\ ~last'.res.success
          /\ db'.inventory = db.inventory]_vars

(* The lines eligible for sale or display, and the database without the    *)
(* lines that are not.                                                     *)
Eligible(d) == {i \in d.inventory : i.status = "active" /\ i.available_date <= Today}

Purged(d) == [d EXCEPT !.inventory = Eligible(d)]

(* C25: what search_products and create_order return and store is what     *)
(* they would with every line that is not active or not yet available      *)
(* taken out of the inventory; the quantity search_products shows for a    *)
(* product is the sum over its eligible lines and the price it shows, and   *)
(* the price of an order item, is the price of an eligible line of that    *)
(* product.                                                                *)
C25_OnlyEligibleLinesCount ==
    [][(ToolStep /\ last'.name \in {"search_products", "create_order"})
       => /\ \E r \in {execute(last'.name, last'.args, last'.session_id, store, Purged(db),
                                last'.ext)} :
                /\ last'.res = r.res
                /\ db'.orders = r.db.orders
                /\ db'.order_items = r.db.order_items
          /\ \A row \in last'.res.data.rows :
                /\ row.available_quantity_kg =
                        total_qty({i \in Eligible(db) : i.product_id = row.product_id})
                /\ row.min_price_per_unit # <<>> =>
                        \E i \in Eligible(db) : /\ i.product_id = row.product_id
                                                 /\ i.price_per_unit = row.min_price_per_unit[1]
          /\ \A it \in db'.order_items \ db.order_items :
                \E i \in Eligible(db) : /\ i.product_id = it.product_id
                                         /\ i.price_per_unit = it.price_per_unit]_vars

(* An order was placed at the price of the one eligible line while a       *)
(* cheaper line of the same product was stored that is not active.         *)
C25_Witness ==
    /\ last.name = "create_order"
    /\ last.res.success
    /\ \E it \in db.order_items, i \in db.inventory :
            /\ it.order_id = last.res.data.order_id
            /\ i.product_id = it.product_id
            /\ i.status \in {"sold_out", "expired"}
            /\ i.price_per_unit < it.price_per_unit

(* The sum of quantity x price over a set of order items.                  *)
RECURSIVE Subtotals(_)
Subtotals(items) ==
    IF items = {} THEN 0
    ELSE LET it == CHOOSE x \in items : TRUE
         IN  it.quantity_kg * it.price_per_unit + Subtotals(items \ {it})

ItemsOf(d, order_id) == {it \in d.order_items : it.order_id = order_id}

(* C26: a create_order that succeeds adds one order and one item per item  *)
(* asked for, each at the lowest price among the eligible lines of its     *)
(* product at that moment, with a total that is the sum of quantity x      *)
(* price over those items; and no step (adding inventory at another price, *)
(* changing the status of a line or of an order, another order) changes    *)
(* the total of a stored order or the items stored for it.                 *)
C26_PriceSnapshotImmutable ==
    [][/\ (ToolStep /\ last'.name = "create_order" /\ last'.res.success) =>
            \E o \in db'.orders \ db.orders :
                /\ db'.orders \ db.orders = {o}
                /\ o.order_id = last'.res.data.order_id
                /\ Cardinality(ItemsOf(db', o.order_id)) = Len(last'.args.items)
                /\ \A it \in ItemsOf(db', o.order_id) :
                        /\ \E i \in Eligible(db) :
                                i.product_id = it.product_id /\ i.price_per_unit = it.price_per_unit
                        /\ \A i \in Eligible(db) :
                                i.product_id = it.product_id => it.price_per_unit <= i.price_per_unit
                        /\ \E k \in 1..Len(last'.args.items) :
                                /\ last'.args.items[k].quantity_kg = <<it.quantity_kg>>
                                /\ get_product_by_name(last'.args.items[k].product_name).product_id
                                        = it.product_id
                /\ o.total_amount = Subtotals(ItemsOf(db', o.order_id))
       /\ \A o \in db.orders :
            /\ \E n \in db'.orders :
                    n.order_id = o.order_id /\ n.total_amount = o.total_amount
            /\ ItemsOf(db', o.order_id) = ItemsOf(db, o.order_id)
       ]_vars

(* An order of two items stands at the price it was placed at, with its    *)
(* total, after a cheaper line of the product became eligible and the      *)
(* order was confirmed.                                                    *)
C26_Witness ==
    \E o \in db.orders :
        /\ o.status = "confirmed"
        /\ Cardinality(ItemsOf(db, o.order_id)) = 2
        /\ o.total_amount = Subtotals(ItemsOf(db, o.order_id))
        /\ \A it \in ItemsOf(db, o.order_id) :
                \E i \in Eligible(db) :
                    i.product_id = it.product_id /\ i.price_per_unit < it.price_per_unit

(* C27 as stated: suggest_flash_sale with days_threshold = 3, called by a  *)
(* registered supplier, lists every active line of that supplier whose     *)
(* expiry_date is tomorrow, with a discount of 30 percent.                 *)
C27_TomorrowGetsHigherTier ==
    [][(/\ ToolStep
        /\ last'.name = "suggest_flash_sale"
        /\ last'.args.days_threshold = <<3>>
        /\ supplier_check(Caller))
       => \A i \in db.inventory :
            (/\ i.supplier_id = Caller.user_id
             /\ i.status = "active"
             /\ i.expiry_date = <<Today + 1>>)
            => \E row \in last'.res.data.rows :
                    /\ row.inventory_id = i.inventory_id
                    /\ row.discount_percent = 30]_vars

C29_FallbackAfterExhaustion ==
    [][(turn.pc = "loop" /\ turn'.pc = "done" /\ turn'.iter = max_calls)
       => /\ turn'.result.type = "text"
          /\ turn'.result.url = None
          /\ IF turn'.nExec > 0
             THEN turn'.result.content = last'.res.message
             ELSE turn'.result.content = Text(<<>>)]_vars

(* A turn ran a tool, then got blank text until the iterations were used   *)
(* up, and answered with the tool's message.                               *)
C29_Witness ==
    /\ turn.pc = "done"
    /\ turn.iter = max_calls
    /\ turn.nExec = 1
    /\ turn.nFinal = max_calls - 1
    /\ turn.result.content = last.res.message
    /\ ~IsBlank(turn.result.content)

(* C30: in every step of a turn's loop, blank text is returned only after  *)
(* max_calls iterations and with no                                        *)
(* tool message; an iteration that neither ran a tool nor ended the turn   *)
(* early (a blank reply whose finalization gave nothing) made exactly one  *)
(* finalization call, and when the turn goes on it goes on with another    *)
(* tool-enabled iteration within the bound; no step makes more than one    *)
(* finalization call, and a tool iteration makes none.                     *)
C30_BlankTextNeverReturnedEarly ==
    [][(turn.pc = "loop" /\ turn' # turn)
       => /\ (/\ turn'.pc = "done"
              /\ turn'.result.type = "text"
              /\ IsBlank(turn'.result.content))
             => /\ turn'.iter = max_calls
                /\ IsFalsy(turn'.last_tool_msg)
                /\ turn'.result.content = Text(<<>>)
          /\ (/\ turn'.nExec = turn.nExec
              /\ \/ turn'.pc = "loop"
                 \/ turn'.pc = "done" /\ turn'.iter = turn.iter + 1)
             => /\ turn'.nFinal = turn.nFinal + 1
                /\ turn'.nTool = turn.nTool + 1
                /\ turn'.iter = turn.iter + 1
          /\ turn'.pc = "loop" => turn'.iter < max_calls
          /\ turn'.nFinal \in {turn.nFinal, turn.nFinal + 1}
          /\ turn'.nExec = turn.nExec + 1 => turn'.nFinal = turn.nFinal]_vars

(* Every iteration of a turn got blank text, every finalization call gave  *)
(* nothing, and the turn answered with the empty string.                   *)
C30_Witness ==
    /\ turn.pc = "done"
    /\ turn.iter = max_calls
    /\ turn.nExec = 0
    /\ turn.nTool = max_calls
    /\ turn.nFinal = max_calls
    /\ turn.result.content = Text(<<>>)

(* C31: when the first reply of a turn is a tool call, the tool is         *)
(* executed once, with the name and arguments of the call and for the      *)
(* turn's session, and its message is the context of the next chat() call; *)
(* when that call answers non-blank text, the turn returns that text with  *)
(* type text, the tool having run once.                                    *)
C31_ToolThenText ==
    [][/\ (/\ turn.pc = "loop"
           /\ turn.nTool = 0
           /\ turn'.nExec = turn.nExec + 1
           /\ turn'.pc = "loop")
          => /\ turn'.nExec = 1
             /\ last'.session_id = turn.session_id
             /\ \E call \in LoopCalls :
                   /\ last'.name = call.name
                   /\ last'.args = call.args
                   /\ last'.res = execute(call.name, call.args, turn.session_id, store, db,
                                          last'.ext).res
             /\ turn'.messages.kind = "tool_context"
             /\ turn'.messages.content = last'.res.message
       /\ (/\ turn.pc = "loop"
           /\ turn.nTool = 1
           /\ turn.nExec = 1
           /\ turn'.pc = "done"
           /\ turn'.nExec = 1
           /\ turn'.nFinal = 0
           /\ turn'.iter = turn.iter)
          => /\ turn.messages.kind = "tool_context"
             /\ turn.messages.content = last.res.message
             /\ turn'.nTool = 2
             /\ last' = last
             /\ db' = db
             /\ turn'.result.type = "text"
             /\ turn'.result.url = None
             /\ \E content \in TextReplies :
                   /\ ~IsBlank(Text(content))
                   /\ turn'.result.content = Text(content)]_vars

(* A turn whose first reply was register_user and whose second was text.   *)
C31_Witness ==
    /\ turn.pc = "done"
    /\ turn.nTool = 2
    /\ turn.nExec = 1
    /\ turn.nFinal = 0
    /\ last.name = "register_user"
    /\ last.res.success
    /\ turn.messages.content = last.res.message
    /\ turn.result.type = "text"
    /\ turn.result.content = Text(<<"o", "k">>)

(* C32: an iteration that executes generate_product_image ends the turn    *)
(* at once with an image payload (the tool message as content, the URL of  *)
(* the result as data) when the result carries a URL; when the tool failed *)
(* or gave no URL, no image payload is returned: the tool message becomes  *)
(* the context of the next call, and the turn goes on or, after the last   *)
(* iteration, falls back to text.                                          *)
C32_ImagePayload ==
    [][(/\ turn.pc = "loop"
        /\ turn'.nExec = turn.nExec + 1
        /\ last'.name = "generate_product_image")
       => IF last'.res.data.image_url # None
          THEN /\ last'.res.success
               /\ turn'.pc = "done"
               /\ turn'.result = [type |-> "image", content |-> last'.res.message,
                                  url |-> last'.res.data.image_url]
               /\ turn'.nTool = turn.nTool + 1
               /\ turn'.nFinal = turn.nFinal
               /\ turn'.iter = turn.iter
          ELSE /\ turn'.result.type # "image"
               /\ turn'.result.url = None
               /\ turn'.last_tool_msg = last'.res.message
               /\ turn'.messages.kind = "tool_context"
               /\ turn'.messages.content = last'.res.message
               /\ turn'.iter = turn.iter + 1
               /\ \/ turn'.pc = "loop" /\ turn'.iter < max_calls
                  \/ /\ turn'.pc = "done"
                     /\ turn'.iter = max_calls
                     /\ turn'.result.type = "text"]_vars

(* A turn ended with an image payload in its second iteration.             *)
C32_Witness ==
    /\ turn.pc = "done"
    /\ turn.result.type = "image"
    /\ turn.result.url = ImageUrl
    /\ turn.result.content = last.res.message
    /\ last.name = "generate_product_image"
    /\ turn.nTool = 2
    /\ turn.nExec = 2

(* C33: the resolver (the exact lookup, then the fuzzy one) returns a      *)
(* product only if the name is a catalog name in some casing, and then     *)
(* that product with a score of 1, or the best similarity over the catalog *)
(* reaches the threshold, and then a product with that best score; when    *)
(* the best score is below the threshold the fuzzy lookup returns no       *)
(* product, and when it is not and some product scores above 0, it         *)
(* returns one.                                                            *)
C33_ResolverNeverGuesses ==
    LET target == Lower(Strip(lookup.name))
        Score(p) == ratio(target, Lower(Strip(p.product_name)))
        IsBest(p) == \A q \in Products : ~ScoreGt(Score(q), Score(p))
        Reached == \E p \in Products : ScoreGe(Score(p), lookup.threshold)
        found == lookup.fuzzy.product
    IN  lookup # NoLookup
        => /\ lookup.exact # NoProduct
              => /\ lookup.exact \in Products
                 /\ Lower(lookup.exact.product_name) = Lower(lookup.name)
                 /\ found = lookup.exact
                 /\ lookup.fuzzy.score.num = lookup.fuzzy.score.den
           /\ (\E p \in Products : Lower(p.product_name) = Lower(lookup.name))
              => lookup.exact # NoProduct
           /\ found # NoProduct
              => /\ found \in Products
                 /\ IsBest(found)
                 /\ lookup.fuzzy.score = Score(found)
                 /\ ScoreGe(Score(found), lookup.threshold)
           /\ ~Reached => found = NoProduct
           /\ (Reached /\ \E p \in Products : ScoreGt(Score(p), ZeroScore))
              => found # NoProduct

(* A misspelt name was resolved at 0.65 with a score below 1.              *)
C33_Witness ==
    /\ lookup.name = Tometo
    /\ lookup.threshold = 65
    /\ lookup.exact = NoProduct
    /\ lookup.fuzzy.product.product_name = Tomato
    /\ lookup.fuzzy.score.num < lookup.fuzzy.score.den

WindowAvg(rows) ==
    LET Within(w) == SelectSeq(rows, LAMBDA r : r.age <= w)
        holding == {w \in {30, 90, 180, 365} : Within(w) # <<>>}
    IN  IF holding = {} THEN Avg(rows)
        ELSE Avg(Within(CHOOSE w \in holding : \A v \in holding : w <= v))

(* C35 as stated: each of the four averages of a recommendation (Farm,     *)
(* Supermarket, Distribution Center, historical transactions) is the       *)
(* average over the shortest window of 30, 90, 180 and 365 days that holds *)
(* an observation, or over all observations, and is None only when there   *)
(* is no observation.                                                      *)
C35_WideningWindows ==
    LET Tier(market) == SelectSeq(lookup.obs, LAMBDA r : r.source_market_type = market)
    IN  "rec" \in DOMAIN lookup
        => /\ lookup.rec.farm_avg = WindowAvg(Tier("Farm"))
           /\ lookup.rec.supermarket_avg = WindowAvg(Tier("Supermarket"))
           /\ lookup.rec.distribution_avg = WindowAvg(Tier("Distribution Center"))
           /\ lookup.rec.historical_avg = WindowAvg(lookup.tx)
           /\ lookup.rec.historical_avg.den = 0 => lookup.tx = <<>>

(* C36: the recommendation is the Farm average plus 10% (to the nearest    *)
(* hundredth) when Farm has an observation, otherwise the historical       *)
(* average the query returned plus 10% when it returned one, otherwise 0.  *)
C36_RecommendationMarkup ==
    LET rec == lookup.rec
        farm_rows == SelectSeq(lookup.obs, LAMBDA r : r.source_market_type = "Farm")
        Nearest(cents, avg) ==
            /\ 2 * (100 * cents * avg.den - 100 * 110 * avg.num) <= 100 * avg.den
            /\ 2 * (100 * 110 * avg.num - 100 * cents * avg.den) <= 100 * avg.den
    IN  "rec" \in DOMAIN lookup
        => /\ farm_rows # <<>> <=> rec.farm_avg.den # 0
           /\ IF farm_rows # <<>> THEN Nearest(rec.recommended, rec.farm_avg)
              ELSE IF rec.historical_avg.den # 0
              THEN Nearest(rec.recommended, rec.historical_avg)
              ELSE rec.recommended = 0
           /\ rec.recommended >= 0

(* A product with no Farm observation and a recent sale at 25 is           *)
(* recommended at 27.50.                                                   *)
C36_Witness ==
    /\ "rec" \in DOMAIN lookup
    /\ lookup.rec.farm_avg.den = 0
    /\ lookup.rec.supermarket_avg.den # 0
    /\ lookup.rec.historical_avg = [num |-> 25, den |-> 1]
    /\ lookup.rec.recommended = 2750

(* C37: in one call of process_message at most max_calls = 3 tools are     *)
(* executed, at most 3 tool-enabled and at most 3 finalization calls of    *)
(* the model are made, 6 calls at most, and every tool run and every       *)
(* finalization belongs to a tool-enabled call of its own.                 *)
C37_CallBudget ==
    /\ turn.nExec <= max_calls
    /\ turn.nTool <= max_calls
    /\ turn.nFinal <= max_calls
    /\ turn.nTool + turn.nFinal <= 2 * max_calls
    /\ turn.nExec + turn.nFinal <= turn.nTool

(* A turn that spent its three iterations on two tools and one blank text. *)
C37_Witness ==
    /\ turn.pc = "done"
    /\ turn.nTool = max_calls
    /\ turn.nExec = max_calls - 1
    /\ turn.nFinal = 1
    /\ turn.result.type = "text"

(* C38: a successful register_user in a turn leaves the session registered *)
(* under the user_id it returned, and every other step of process_message  *)
(* (the user turn, later tool calls, the assistant turn of any return)     *)
(* leaves user_id, user_type and registered of a registered session as     *)
(* they are stored.                                                        *)
C38_IdentitySurvivesTurn ==
    [][LET before == store[turn'.session_id]
           after == store'[turn'.session_id]
           registers == /\ turn'.nExec = turn.nExec + 1
                        /\ last'.name = "register_user"
       IN  (turn' # turn /\ turn'.session_id \in Created)
           => /\ (registers /\ last'.res.success)
                 => /\ after.registered
                    /\ after.user_id = last'.res.data.user_id
                    /\ after.user_id # None
                    /\ after.user_type \in {"customer", "supplier"}
                    /\ {"user_id", "user_type", "registered"} \subseteq after.keys
              /\ (~registers /\ before.registered)
                 => /\ after.registered
                    /\ after.user_id = before.user_id
                    /\ after.user_type = before.user_type]_vars

(* register_user ran first in a turn that then answered with text: the     *)
(* session holds both turns of the history and the identity.               *)
C38_Witness ==
    /\ turn.pc = "done"
    /\ turn.nExec = 1
    /\ turn.nTool = 2
    /\ last.name = "register_user"
    /\ last.res.message.k = "Registration complete"
    /\ store[turn.session_id].registered
    /\ store[turn.session_id].user_id = last.res.data.user_id
    /\ store[turn.session_id].user_type = "supplier"
    /\ Len(store[turn.session_id].conversation_history) = 2

(* C39: the context of every created session is the one create_session     *)
(* wrote (current_flow idle, nothing pending, no intent, no confirmation   *)
(* awaited), whatever messages were processed and tools run since.         *)
C39_ContextUntouched ==
    \A s \in Created :
        store[s].present
        => /\ "context" \in store[s].keys
           /\ store[s].context = InitialContext
           /\ store[s].context.current_flow = "idle"

(* A session that registered and got an answer in one turn.                *)
C39_Witness ==
    /\ turn.pc = "done"
    /\ turn.session_id \in Created
    /\ turn.nExec > 0
    /\ store[turn.session_id].registered
    /\ Len(store[turn.session_id].conversation_history) >= 2
    /\ store[turn.session_id].context.current_flow = "idle"

(* C40: a call of create_order, whether it succeeds or fails, leaves the   *)
(* inventory table as it was; and a registered caller's order for a        *)
(* product that has an available line succeeds whatever the quantity       *)
(* asked for.                                                              *)
C40_OrderLeavesInventory ==
    [][(ToolStep /\ last'.name = "create_order")
       => /\ db'.inventory = db.inventory
          /\ (/\ Caller.present
              /\ Caller.registered
              /\ Caller.user_id # None
              /\ \A k \in 1..Len(last'.args.items) :
                    \E p \in Products :
                        /\ Lower(p.product_name) = Lower(last'.args.items[k].product_name)
                        /\ get_available_inventory(db, p.product_id) # {})
             => /\ last'.res.success
                /\ \E o \in db'.orders \ db.orders : o.order_id = last'.res.data.order_id]_vars

(* An order was stored for more than the available lines hold together,    *)
(* and they hold what they held.                                           *)
C40_Witness ==
    /\ last.name = "create_order"
    /\ last.res.success
    /\ \E it \in ItemsOf(db, last.res.data.order_id) :
            /\ get_available_inventory(db, it.product_id) # {}
            /\ it.quantity_kg > total_qty(get_available_inventory(db, it.product_id))
    /\ \A i \in db.inventory : i.status = "active" /\ i.quantity_kg > 0

====
